---- MODULE Spec2Model ----
(***************************************************************************)
(* A model of the package version finder (src/python.py): the manifest     *)
(* reader read_buildlist, the recipe locator find_recipes, the declaration *)
(* extractor extract_src_info, the resolver clone_and_describe_repo and    *)
(* the driver loop of main.                                                *)
(*                                                                         *)
(* Text is modelled as sequences of one-character strings, so that the     *)
(* string operations of the code (strip, startswith, endswith, split, in)  *)
(* are computed and not assumed.                                           *)
(***************************************************************************)
EXTENDS Integers, Sequences, FiniteSets, TLC

VARIABLES
    pc,                 \* position of the running function
    manifest,           \* read_buildlist: the lines of the manifest file
    mpos,               \* read_buildlist: number of lines consumed
    entries,            \* read_buildlist: entries (machine, package)
    package_names,      \* read_buildlist / find_recipes: package_names
    warnings,           \* read_buildlist: lines logged as "Malformed line skipped"
    walk,               \* find_recipes: the (root, file) pairs in os.walk order
    fidx,               \* find_recipes: number of files visited
    recipes_found,      \* find_recipes: recipes_found
    recipes_not_found,  \* find_recipes: recipes_not_found
    recipe_paths,       \* find_recipes: recipe_paths, a dict in insertion order
    xdir,               \* extract_src_info: the files of the recipe's directory
    recipe_filename,    \* extract_src_info: the name of the recipe file
    machine_type,       \* extract_src_info: machine_type
    lines,              \* extract_src_info: lines
    lidx,               \* extract_src_info: number of lines handled
    opened,             \* extract_src_info: the files opened so far, in order
    src_uri,            \* extract_src_info: src_uri
    src_rev,            \* extract_src_info: src_rev
    src_branch,         \* extract_src_info: src_branch
    ridx,               \* main: number of items of recipe_paths handled
    machine,            \* main: machine
    package_info,       \* main: package_info, a dict in insertion order
    incomplete,         \* main: recipes logged "Incomplete source info"
    output,             \* main: final_output.json
    tmpdirs,            \* clone_and_describe_repo: working directories that exist
    git_failed,         \* clone_and_describe_repo: the git invocation that failed
    tag,                \* clone_and_describe_repo: tag, the value returned
    raising             \* an exception that no handler has caught

manifestVars == <<manifest, mpos, entries, warnings>>
locateVars == <<walk, fidx, recipes_found, recipes_not_found, recipe_paths>>

extractVars ==
    <<xdir, recipe_filename, machine_type, lines, lidx, opened, src_uri,
      src_rev, src_branch>>

driverVars ==
    <<ridx, machine, package_info, incomplete, output, tmpdirs, git_failed,
      tag, raising>>

vars ==
    <<pc, package_names, manifestVars, locateVars, extractVars, driverVars>>

----------------------------------------------------------------------------
(* Bounds of the model *)

MaxLines == 3
MaxPkgs == 2
MaxFiles == 3
MaxDirFiles == 3
MaxRecipes == 2
MaxPieces == 3

----------------------------------------------------------------------------
(* String operations of Python, on sequences of characters *)

Whitespace == {" ", "\t", "\n", "\r"}

RECURSIVE LStrip(_)
LStrip(s) ==
    IF s # <<>> /\ Head(s) \in Whitespace THEN LStrip(Tail(s)) ELSE s

RECURSIVE RStrip(_)
RStrip(s) ==
    IF s # <<>> /\ s[Len(s)] \in Whitespace
    THEN RStrip(SubSeq(s, 1, Len(s) - 1))
    ELSE s

\* str.strip()
Strip(s) == RStrip(LStrip(s))

\* str.startswith(p)
StartsWith(s, p) == Len(p) <= Len(s) /\ SubSeq(s, 1, Len(p)) = p

\* str.endswith(p)
EndsWith(s, p) ==
    Len(p) <= Len(s) /\ SubSeq(s, Len(s) - Len(p) + 1, Len(s)) = p

\* p in s
Contains(s, p) ==
    \/ p = <<>>
    \/ \E i \in 1..(Len(s) - Len(p) + 1) :
          s[i] = p[1] /\ SubSeq(s, i, i + Len(p) - 1) = p

\* The k-th smallest element of a set of numbers
Nth(S, k) == CHOOSE x \in S : Cardinality({y \in S : y < x}) = k - 1

\* str.split(c) for a one-character separator c: the texts between the
\* occurrences of c
Split(s, c) ==
    LET seps == {i \in 1..Len(s) : s[i] = c}
        n == Cardinality(seps)
        From(k) == IF k = 1 THEN 1 ELSE Nth(seps, k - 1) + 1
        To(k) == IF k = n + 1 THEN Len(s) ELSE Nth(seps, k) - 1
    IN [k \in 1..(n + 1) |-> SubSeq(s, From(k), To(k))]

\* list.remove(x) guarded by "x in list": the first occurrence is removed
RECURSIVE RemoveFirst(_, _)
RemoveFirst(l, x) ==
    IF l = <<>> THEN <<>>
    ELSE IF Head(l) = x THEN Tail(l)
    ELSE <<Head(l)>> \o RemoveFirst(Tail(l), x)

Range(l) == {l[i] : i \in 1..Len(l)}

MinOf(S) == CHOOSE x \in S : \A y \in S : x <= y
MaxOf(S) == CHOOSE x \in S : \A y \in S : y <= x

\* A for loop that breaks at its first hit: the least of the indices that
\* satisfy the loop's test, 0 when there is none
FirstHit(hits) == IF hits = {} THEN 0 ELSE MinOf(hits)

\* A Python dict as the sequence of its items in insertion order
Keys(d) == {d[i].key : i \in 1..Len(d)}

Lookup(d, k) == d[CHOOSE i \in 1..Len(d) : d[i].key = k].val

\* An assignment that adds an item even when the key exists
DictSet_Append(d, k, v) == Append(d, [key |-> k, val |-> v])

\* d[k] = v: an existing key keeps its place and takes the new value
DictSet(d, k, v) ==
    IF k \in Keys(d)
    THEN [i \in 1..Len(d) |-> IF d[i].key = k THEN [key |-> k, val |-> v] ELSE d[i]]
    ELSE Append(d, [key |-> k, val |-> v])

\* Python's None, and a string value; "if x" holds for a non-empty string
None == [some |-> FALSE, v |-> <<>>]
Some(x) == [some |-> TRUE, v |-> x]
Truthy(o) == o.some /\ o.v # <<>>

\* The driver has not started
DriverIdle ==
    /\ ridx = 0
    /\ machine = None
    /\ package_info = <<>>
    /\ incomplete = <<>>
    /\ output = [written |-> FALSE, data |-> <<>>]
    /\ tmpdirs = 0
    /\ git_failed = "none"
    /\ tag = None
    /\ raising = FALSE

\* All sequences over S of length at most n
SeqsUpTo(S, n) == UNION {[1..k -> S] : k \in 0..n}

----------------------------------------------------------------------------
(* read_buildlist *)

McPrefix == <<"m", "c", ":">>

\* Manifest lines the model draws from (without the line terminator): two
\* entries, a line of two fields, a line of four, a comment, a blank line,
\* an entry with blanks around it, and a line with another prefix
ManifestLines ==
    {<<"m","c",":","r","2","-","0",":","f","o","o">>,
     <<"m","c",":","r","3","-","1",":","b","a","r">>,
     <<"m","c",":","o","n","l","y","t","w","o">>,
     <<"m","c",":","a",":","b",":","c">>,
     <<"#"," ","x">>,
     <<>>,
     <<" ","m","c",":","r","2","-","0",":","f","o","o"," ">>,
     <<"x","m","c",":","a",":","b">>}

\* Accepted with the field count tested as "at least three"
Accepted_AtLeastThree(line) ==
    StartsWith(Strip(line), McPrefix) /\ Len(Split(Strip(line), ":")) >= 3

\* line 39-42: the test on the stripped line
Accepted(line) ==
    StartsWith(Strip(line), McPrefix) /\ Len(Split(Strip(line), ":")) = 3

\* line 43: machine, package = parts[1], parts[2]
EntryOf(line) ==
    LET parts == Split(Strip(line), ":") IN <<parts[2], parts[3]>>

\* line 40, 47-48: the else branch belongs to the startswith test
Warned(line) == ~StartsWith(Strip(line), McPrefix)

\* One iteration of the loop of line 38
ReadLine ==
    /\ pc = "read"
    /\ mpos < Len(manifest)
    /\ LET line == manifest[mpos + 1] IN
        /\ entries' =
              IF Accepted(line) THEN Append(entries, EntryOf(line)) ELSE entries
        /\ package_names' =
              IF Accepted(line)
              THEN Append(package_names, EntryOf(line)[2])
              ELSE package_names
        /\ warnings' =
              IF Warned(line) THEN Append(warnings, Strip(line)) ELSE warnings
    /\ mpos' = mpos + 1
    /\ UNCHANGED <<pc, manifest, locateVars, extractVars, driverVars>>

\* line 50: return entries, package_names
ReadReturn ==
    /\ pc = "read"
    /\ mpos = Len(manifest)
    /\ pc' = "read_done"
    /\ UNCHANGED <<package_names, manifestVars, locateVars, extractVars, driverVars>>

InitManifest ==
    /\ pc = "read"
    /\ manifest \in SeqsUpTo(ManifestLines, MaxLines)
    /\ mpos = 0
    /\ entries = <<>>
    /\ package_names = <<>>
    /\ warnings = <<>>
    /\ walk = <<>>
    /\ fidx = 0
    /\ recipes_found = <<>>
    /\ recipes_not_found = <<>>
    /\ recipe_paths = <<>>
    /\ xdir = <<>>
    /\ recipe_filename = <<>>
    /\ machine_type = None
    /\ lines = <<>>
    /\ lidx = 0
    /\ opened = <<>>
    /\ src_uri = None
    /\ src_rev = None
    /\ src_branch = None
    /\ DriverIdle

NextManifest == ReadLine \/ ReadReturn

SpecManifest == InitManifest /\ [][NextManifest]_vars

----------------------------------------------------------------------------
(* find_recipes *)

\* os.path.splitext(file)[0]: the text before the last dot, unless only dots
\* precede it
SplitExtRoot(file) ==
    LET dots == {i \in 1..Len(file) : file[i] = "."} IN
    IF dots = {} THEN file
    ELSE LET d == MaxOf(dots) IN
         IF \A i \in 1..(d - 1) : file[i] = "." THEN file
         ELSE SubSeq(file, 1, d - 1)

\* os.path.basename(root)
Basename(root) ==
    LET seps == {i \in 1..Len(root) : root[i] = "/"} IN
    IF seps = {} THEN root ELSE SubSeq(root, MaxOf(seps) + 1, Len(root))

\* os.path.join(root, file)
Join(root, file) ==
    IF root = <<>> \/ root[Len(root)] = "/" THEN root \o file
    ELSE root \o <<"/">> \o file

\* line 59
IsRecipeFile(file) == EndsWith(file, <<".","b","b">>) \/ EndsWith(file, <<".","i","n","c">>)

\* line 66
suffixes_to_remove ==
    <<<<"_","g","i","t">>, <<"_","s","v","n">>, <<"_","h","g">>, <<"-","g","i","t">>, <<"-","s","v","n">>, <<"-","h","g">>>>

\* lines 67-70: the first suffix of the list that the name ends with is cut
StripSuffix(name) ==
    LET i == FirstHit({j \in 1..Len(suffixes_to_remove) :
                          EndsWith(name, suffixes_to_remove[j])}) IN
    IF i = 0 THEN name
    ELSE SubSeq(name, 1, Len(name) - Len(suffixes_to_remove[i]))

\* lines 73-77: "common" becomes the first package name found in root
ResolveCommon(name, root, pkgs) ==
    IF name = <<"c","o","m","m","o","n">>
    THEN LET i == FirstHit({j \in 1..Len(pkgs) : Contains(root, pkgs[j])}) IN
         IF i = 0 THEN name ELSE pkgs[i]
    ELSE name

\* The three results of find_recipes as one value
LocState(found, notfound, paths) ==
    [found |-> found, notfound |-> notfound, paths |-> paths]

\* The package taken off the not-found list and its recipe not stored
Record_Forgetting(st, pkg, path) ==
    LocState(Append(st.found, pkg),
             IF pkg \in Range(st.notfound)
             THEN RemoveFirst(st.notfound, pkg) ELSE st.notfound,
             st.paths)

\* lines 81-84, 96-99, 110-113: one recipe recorded for pkg
Record(st, pkg, path) ==
    LocState(Append(st.found, pkg),
             IF pkg \in Range(st.notfound)
             THEN RemoveFirst(st.notfound, pkg) ELSE st.notfound,
             DictSet(st.paths, pkg, path))

\* The candidate name recorded whether or not it is a package name
ExactRule_AnyName(st, name, path, pkgs) == Record(st, name, path)

\* lines 80-85: the candidate name is a package name
ExactRule(st, name, path, pkgs) ==
    IF name \in Range(pkgs) THEN Record(st, name, path) ELSE st

\* lines 89-101: the first package without a recipe that the candidate name,
\* stripped or not, starts with, followed by "-" or "_"
PrefixRule(st, name, original, path, pkgs) ==
    LET Hit(pkg) ==
            /\ pkg \notin Keys(st.paths)
            /\ \/ StartsWith(name, Append(pkg, "-"))
               \/ StartsWith(name, Append(pkg, "_"))
               \/ StartsWith(original, Append(pkg, "-"))
               \/ StartsWith(original, Append(pkg, "_"))
        i == FirstHit({j \in 1..Len(pkgs) : Hit(pkgs[j])}) IN
    IF i = 0 THEN st ELSE Record(st, pkgs[i], path)

\* The directory rule without the test "pkg not in recipe_paths"
DirectoryRule_Reassigning(st, original, root, file, path, pkgs) ==
    LET directory_name == Basename(root)
        Hit(pkg) ==
            /\ Len(directory_name) > 3
            /\ StartsWith(pkg, directory_name)
            /\ (Contains(original, pkg) \/ Contains(file, pkg))
        i == FirstHit({j \in 1..Len(pkgs) : Hit(pkgs[j])}) IN
    IF i = 0 THEN st ELSE Record(st, pkgs[i], path)

\* lines 105-115: the first package without a recipe that starts with the
\* directory's name and occurs in the file's name
DirectoryRule(st, original, root, file, path, pkgs) ==
    LET directory_name == Basename(root)
        Hit(pkg) ==
            /\ pkg \notin Keys(st.paths)
            /\ Len(directory_name) > 3
            /\ StartsWith(pkg, directory_name)
            /\ (Contains(original, pkg) \/ Contains(file, pkg))
        i == FirstHit({j \in 1..Len(pkgs) : Hit(pkgs[j])}) IN
    IF i = 0 THEN st ELSE Record(st, pkgs[i], path)

\* lines 58-115: the body of the loop for one file
VisitResult(st, root, file, pkgs) ==
    IF ~IsRecipeFile(file) THEN st
    ELSE LET original == SplitExtRoot(file)
             name == ResolveCommon(StripSuffix(original), root, pkgs)
             path == Join(root, file)
             s1 == ExactRule(st, name, path, pkgs)
             s2 == PrefixRule(s1, name, original, path, pkgs)
         IN DirectoryRule(s2, original, root, file, path, pkgs)

\* One iteration of the loops of lines 57-58
VisitFile ==
    /\ pc = "walk"
    /\ fidx < Len(walk)
    /\ LET f == walk[fidx + 1]
           st == VisitResult(
                    LocState(recipes_found, recipes_not_found, recipe_paths),
                    f.root, f.file, package_names) IN
        /\ recipes_found' = st.found
        /\ recipes_not_found' = st.notfound
        /\ recipe_paths' = st.paths
    /\ fidx' = fidx + 1
    /\ UNCHANGED <<pc, package_names, walk, manifestVars, extractVars,
                   driverVars>>

\* line 117
WalkReturn ==
    /\ pc = "walk"
    /\ fidx = Len(walk)
    /\ pc' = "walk_done"
    /\ UNCHANGED <<package_names, manifestVars, locateVars, extractVars, driverVars>>

\* Package names and files the model draws from
PkgNames == {<<"f","o","o">>, <<"f","o","o","_","g","i","t">>, <<"g","e","o","d","a","t","a">>, <<"g","e","o","d","a","t","a","t","y","p","e","s">>}

File(root, file) == [root |-> root, file |-> file]

TreeFiles ==
    {File(<<"l","/","a">>, <<"f","o","o",".","b","b">>),
     File(<<"l","/","a">>, <<"f","o","o","_","g","i","t",".","b","b">>),
     File(<<"l","/","a">>, <<"f","o","o","-","t","e","s","t",".","b","b">>),
     File(<<"l","/","a">>, <<"R","E","A","D","M","E",".","m","d">>),
     File(<<"l","/","b">>, <<"f","o","o",".","i","n","c">>),
     File(<<"l","/","g","e","o","d","a","t","a","t","y","p","e","s">>, <<"c","o","m","m","o","n",".","b","b">>),
     File(<<"l","/","g","e","o","d","a","t","a">>, <<"g","e","o","d","a","t","a","t","y","p","e","s",".","b","b">>),
     File(<<"l","/","g","e","o","d","a","t","a">>, <<"c","o","m","m","o","n",".","i","n","c">>),
     File(<<"l","/","g","e","o","d","a","t","a">>, <<"l","i","b","-","g","e","o","d","a","t","a","t","y","p","e","s",".","b","b">>)}

\* os.walk visits each directory once: no file twice, and the files of one
\* directory one after the other
IsWalk(w) ==
    /\ \A i, j \in 1..Len(w) : i # j => w[i] # w[j]
    /\ \A i, j, k \in 1..Len(w) :
          (i < j /\ j < k /\ w[i].root = w[k].root) => w[j].root = w[i].root

InitLocate ==
    /\ pc = "walk"
    /\ package_names \in SeqsUpTo(PkgNames, MaxPkgs)
    /\ walk \in {w \in SeqsUpTo(TreeFiles, MaxFiles) : IsWalk(w)}
    /\ fidx = 0
    /\ recipes_found = <<>>
    /\ recipes_not_found = package_names
    /\ recipe_paths = <<>>
    /\ manifest = <<>>
    /\ mpos = 0
    /\ entries = <<>>
    /\ warnings = <<>>
    /\ xdir = <<>>
    /\ recipe_filename = <<>>
    /\ machine_type = None
    /\ lines = <<>>
    /\ lidx = 0
    /\ opened = <<>>
    /\ src_uri = None
    /\ src_rev = None
    /\ src_branch = None
    /\ DriverIdle

NextLocate == VisitFile \/ WalkReturn

SpecLocate == InitLocate /\ [][NextLocate]_vars

----------------------------------------------------------------------------
(* Python values and regular expressions used by extract_src_info *)

\* The literal lit stands at position i of s
LitAt(s, i, lit) ==
    /\ i >= 1
    /\ i + Len(lit) - 1 <= Len(s)
    /\ lit = <<>> \/ s[i] = lit[1]
    /\ SubSeq(s, i, i + Len(lit) - 1) = lit

\* The position after the longest run, from i, of characters in C ([C]*)
RunIn(s, i, C) ==
    IF i > Len(s) THEN i
    ELSE MinOf({j \in i..(Len(s) + 1) : j = Len(s) + 1 \/ s[j] \notin C})

\* The position after the longest run, from i, of characters not in C ([^C]*)
RunNotIn(s, i, C) ==
    IF i > Len(s) THEN i
    ELSE MinOf({j \in i..(Len(s) + 1) : j = Len(s) + 1 \/ s[j] \in C})

\* str.find(p) as a 1-based position, 0 when p does not occur
Find(s, p) ==
    FirstHit({i \in 1..(Len(s) - Len(p) + 1) : LitAt(s, i, p)})

\* str.replace(a, b, 1) for one-character a and b
ReplaceFirst(s, a, b) ==
    LET i == FirstHit({j \in 1..Len(s) : s[j] = a}) IN
    IF i = 0 THEN s ELSE [j \in 1..Len(s) |-> IF j = i THEN b ELSE s[j]]

\* The text of a file is held as its physical lines, the texts between its
\* newlines.
\* line 134: re.sub(r'\\\s*\n\s*', ' ', content) matches a backslash with
\* only whitespace after it on its line, when a newline follows: the
\* position of that backslash, 0 when the line has none
ContinuationAt(line) ==
    LET slashes == {i \in 1..Len(line) : line[i] = "\\"} IN
    IF slashes = {} THEN 0
    ELSE IF \A j \in (MaxOf(slashes) + 1)..Len(line) : line[j] \in Whitespace
    THEN MaxOf(slashes) ELSE 0

IsBlank(line) == \A j \in 1..Len(line) : line[j] \in Whitespace

\* The match takes the rest of the line, the newline and all the whitespace
\* that follows, blank lines included, and leaves one space
RECURSIVE CollapseContinuations(_)
CollapseContinuations(ls) ==
    IF Len(ls) <= 1 THEN ls
    ELSE IF ContinuationAt(ls[1]) = 0
    THEN <<ls[1]>> \o CollapseContinuations(Tail(ls))
    ELSE LET rest == Tail(ls)
             skip == FirstHit({k \in 1..Len(rest) :
                                  ~IsBlank(rest[k]) \/ k = Len(rest)})
             joined == SubSeq(ls[1], 1, ContinuationAt(ls[1]) - 1)
                       \o <<" ">> \o LStrip(rest[skip])
         IN CollapseContinuations(<<joined>> \o SubSeq(rest, skip + 1, Len(rest)))

\* lines 134-135, 140: the stripped logical lines of a file
LogicalLines(content) ==
    LET ls == CollapseContinuations(content) IN
    [i \in 1..Len(ls) |-> Strip(ls[i])]

HexChars ==
    {"a","b","c","d","e","f","0","1","2","3","4","5","6","7","8","9"}

\* <var>\s*=\s* at position i: the position after it, 0 when it does not match
AfterAssign(s, i, var) ==
    IF LitAt(s, i, var)
    THEN LET j == RunIn(s, i + Len(var), Whitespace) IN
         IF j <= Len(s) /\ s[j] = "="
         THEN RunIn(s, j + 1, Whitespace) ELSE 0
    ELSE 0

\* The value patterns that follow <var>\s*=\s*, at position k:
\*   "dq"  "([^"]+)"      "sq"  '([^']+)'
\*   "hex" ([a-f0-9]{6,})  "tok" ([^\s;]+)
ValueAt(s, k, kind) ==
    CASE kind = "dq" ->
            LET e == RunNotIn(s, k + 1, {"\""}) IN
            IF k >= 1 /\ k <= Len(s) /\ s[k] = "\"" /\ e <= Len(s) /\ e > k + 1
            THEN Some(SubSeq(s, k + 1, e - 1)) ELSE None
      [] kind = "sq" ->
            LET e == RunNotIn(s, k + 1, {"'"}) IN
            IF k >= 1 /\ k <= Len(s) /\ s[k] = "'" /\ e <= Len(s) /\ e > k + 1
            THEN Some(SubSeq(s, k + 1, e - 1)) ELSE None
      [] kind = "hex" ->
            LET e == RunIn(s, k, HexChars) IN
            IF k >= 1 /\ e - k >= 6 THEN Some(SubSeq(s, k, e - 1)) ELSE None
      [] kind = "tok" ->
            LET e == RunNotIn(s, k, Whitespace \cup {";"}) IN
            IF k >= 1 /\ e > k THEN Some(SubSeq(s, k, e - 1)) ELSE None

\* A list of patterns tried in order until one matches: the earlier result
\* when it matched, else the later one
OrElse(a, b) == IF a.some THEN a ELSE b

\* <var>\s*=\s*<value pattern> at position j of s: the group, None when the
\* pattern does not match there (j = 0 stands for no position)
AssignValueAt(s, j, var, kind) ==
    IF j = 0 THEN None ELSE ValueAt(s, AfterAssign(s, j, var), kind)

\* re.search(<var>\s*=\s*<value pattern>, s).group(1): the leftmost match
SearchAssign(s, var, kind) ==
    AssignValueAt(s, FirstHit({j \in 1..Len(s) :
                                 AssignValueAt(s, j, var, kind).some}),
                  var, kind)

SRCREV == <<"S","R","C","R","E","V">>
SRCBRANCH == <<"S","R","C","B","R","A","N","C","H">>

\* lines 199-204, 212-217: the value patterns of a variable, in order, up to
\* the first that matches
RECURSIVE SearchKinds(_, _, _)
SearchKinds(s, var, kinds) ==
    IF kinds = <<>> THEN None
    ELSE OrElse(SearchAssign(s, var, Head(kinds)),
                SearchKinds(s, var, Tail(kinds)))

\* lines 193-204: the SRCREV patterns
MatchRev(line) == SearchKinds(line, SRCREV, <<"dq", "sq", "hex", "tok">>)

\* lines 207-217: the SRCBRANCH patterns
MatchBranch(line) == SearchKinds(line, SRCBRANCH, <<"dq", "sq", "tok">>)

\* <lit>([^;]+) at position j of s: the group, None when there is no match
\* (j = 0 stands for no position)
PrefixedAt(s, j, lit) ==
    IF j >= 1 /\ LitAt(s, j, lit)
          /\ RunNotIn(s, j + Len(lit), {";"}) > j + Len(lit)
    THEN Some(SubSeq(s, j + Len(lit), RunNotIn(s, j + Len(lit), {";"}) - 1))
    ELSE None

\* re.search(<lit>([^;]+), s).group(1)
SearchPrefixed(s, lit) ==
    PrefixedAt(s, FirstHit({j \in 1..Len(s) : PrefixedAt(s, j, lit).some}), lit)

DotGit == <<".","g","i","t">>
GithubCom == <<"g","i","t","h","u","b",".","c","o","m">>

\* The positions q of ".git" that can end a group starting at p within a run
\* that ends before e
DotGitEnds(s, p, e) == {q \in (p + 1)..(e - 4) : LitAt(s, q, DotGit)}

\* re.search(r'https://([^;]+)\.git', s).group(1): the group is greedy
SearchHttpsDotGit(s) ==
    LET lit == <<"h","t","t","p","s",":","/","/">>
        i == FirstHit({j \in 1..Len(s) :
                 /\ LitAt(s, j, lit)
                 /\ DotGitEnds(s, j + Len(lit),
                               RunNotIn(s, j + Len(lit), {";"})) # {}}) IN
    IF i = 0 THEN None
    ELSE LET p == i + Len(lit) IN
         Some(SubSeq(s, p, MaxOf(DotGitEnds(s, p, RunNotIn(s, p, {";"}))) - 1))

\* re.search(r'"([^"]*github\.com[^"]*)"', s).group(1)
SearchQuotedGithub(s) ==
    LET Closes(j) == RunNotIn(s, j + 1, {"\""})
        i == FirstHit({j \in 1..Len(s) :
                 /\ s[j] = "\""
                 /\ Closes(j) <= Len(s)
                 /\ Contains(SubSeq(s, j + 1, Closes(j) - 1), GithubCom)}) IN
    IF i = 0 THEN None ELSE Some(SubSeq(s, i + 1, Closes(i) - 1))

QuoteOrSpace == Whitespace \cup {"\""}

\* The positions g of "github.com" after a non-empty group that starts at i,
\* with a non-empty tail after it
GithubAt(s, i) ==
    {g \in (i + 1)..(RunNotIn(s, i, QuoteOrSpace) - Len(GithubCom)) :
        /\ LitAt(s, g, GithubCom)
        /\ RunNotIn(s, g + Len(GithubCom), QuoteOrSpace \cup {";"})
              > g + Len(GithubCom)}

\* re.search(r'([^"\s]+github\.com[^"\s;]+)', s).group(1)
SearchFlexibleGithub(s) ==
    LET i == FirstHit({j \in 1..Len(s) : GithubAt(s, j) # {}}) IN
    IF i = 0 THEN None
    ELSE Some(SubSeq(s, i,
                 RunNotIn(s, MaxOf(GithubAt(s, i)) + Len(GithubCom),
                          QuoteOrSpace \cup {";"}) - 1))

\* re.search(r'([^"\s]+\.git)', s).group(1)
SearchAnyDotGit(s) ==
    LET i == FirstHit({j \in 1..Len(s) :
                 DotGitEnds(s, j, RunNotIn(s, j, QuoteOrSpace)) # {}}) IN
    IF i = 0 THEN None
    ELSE Some(SubSeq(s, i,
                 MaxOf(DotGitEnds(s, i, RunNotIn(s, i, QuoteOrSpace))) + 3))

\* lines 149-151, 153-155: the literal that starts the n-th URL pattern
UriPrefix(n) ==
    CASE n = 1 -> <<"g","i","t","s","m",":","/","/","g","i","t","@">>
      [] n = 2 -> <<"g","i","t","s","m",":","/","/">>
      [] n = 3 -> <<"h","t","t","p","s",":","/","/","g","i","t","@">>
      [] n = 5 -> <<"g","i","t",":","/","/">>
      [] n = 6 -> <<"h","t","t","p","s",":","/","/">>
      [] n = 7 -> <<"g","i","t","@">>

\* lines 148-160: the URL patterns by their place in the list
UriPattern(line, n) ==
    CASE n \in {1, 2, 3, 5, 6, 7} -> SearchPrefixed(line, UriPrefix(n))
      [] n = 4 -> SearchHttpsDotGit(line)
      [] n = 8 -> SearchQuotedGithub(line)
      [] n = 9 -> SearchFlexibleGithub(line)
      [] n = 10 -> SearchAnyDotGit(line)

\* lines 162-166: the first pattern of the list, from the n-th on, that
\* matches
RECURSIVE MatchUriFrom(_, _)
MatchUriFrom(line, n) ==
    IF n > 10 THEN None
    ELSE OrElse(UriPattern(line, n), MatchUriFrom(line, n + 1))

MatchUri(line) == MatchUriFrom(line, 1)

\* lines 169-170
CutDotGit(u) == IF EndsWith(u, DotGit) THEN SubSeq(u, 1, Len(u) - 4) ELSE u

\* lines 173-181
ToSshForm(u) ==
    IF Contains(u, GithubCom)
    THEN IF StartsWith(u, <<"g","i","t","h","u","b",".","c","o","m","/">>)
         THEN <<"g","i","t","@">> \o ReplaceFirst(u, "/", ":") \o DotGit
         ELSE IF Contains(u, <<"g","i","t","h","u","b",".","c","o","m","/">>)
         THEN <<"g","i","t","@">>
              \o ReplaceFirst(SubSeq(u, Find(u, <<"g","i","t","h","u","b",".","c","o","m","/">>), Len(u)), "/", ":")
              \o DotGit
         ELSE <<"g","i","t","@","g","i","t","h","u","b",".","c","o","m",":">> \o u \o DotGit
    ELSE u

\* lines 166-181
NormalizeUri(u) == ToSshForm(CutDotGit(u))

\* line 144
IsGitUriLine(line) ==
    Contains(line, <<"S","R","C","_","U","R","I">>) /\ (Contains(line, <<"g","i","t">>) \/ Contains(line, <<"g","i","t","h","u","b">>))

----------------------------------------------------------------------------
(* extract_src_info *)

\* (src_uri, src_rev, src_branch)
Triple(u, r, b) == [uri |-> u, rev |-> r, branch |-> b]

\* lines 165-166, 201-202, 214-215: "if match:" and the assignment
Assign(t, field, m) == IF m.some THEN [t EXCEPT ![field] = m] ELSE t

\* lines 166-181: the group of the match, cleaned up and standardized
Normalized(m) == IF m.some THEN Some(NormalizeUri(m.v)) ELSE None

\* One logical line of the primary file given to every extractor whose
\* marker it contains
PrimaryLine_AllExtractors(t, line) ==
    Assign(Assign(IF IsGitUriLine(line)
                  THEN Assign(t, "uri", Normalized(MatchUri(line)))
                  ELSE t,
                  "rev",
                  IF Contains(line, SRCREV) THEN MatchRev(line) ELSE None),
           "branch",
           IF Contains(line, SRCBRANCH) THEN MatchBranch(line) ELSE None)

\* lines 144-217: one logical line of the primary file; a later match
\* assigns the variable again
PrimaryLine(t, line) ==
    IF IsGitUriLine(line) THEN Assign(t, "uri", Normalized(MatchUri(line)))
    ELSE IF Contains(line, SRCREV) THEN Assign(t, "rev", MatchRev(line))
    ELSE IF Contains(line, SRCBRANCH)
    THEN Assign(t, "branch", MatchBranch(line))
    ELSE t

\* lines 139-217: the loop over the primary file's lines
RECURSIVE ScanPrimary(_, _)
ScanPrimary(t, ls) ==
    IF ls = <<>> THEN t
    ELSE ScanPrimary(PrimaryLine(t, Head(ls)), Tail(ls))

\* SRCREV from a line of another file, whether or not it is already set
SiblingRev_Overwriting(t, line) ==
    IF Contains(line, SRCREV)
    THEN Assign(t, "rev", MatchRev(line)) ELSE t

\* lines 260-273, 314-326: SRCREV from a line of another file
SiblingRev(t, line) ==
    IF ~t.rev.some /\ Contains(line, SRCREV)
    THEN Assign(t, "rev", MatchRev(line)) ELSE t

\* lines 275-287, 328-339: SRCBRANCH from a line of another file
SiblingBranch(t, line) ==
    IF ~t.branch.some /\ Contains(line, SRCBRANCH)
    THEN Assign(t, "branch", MatchBranch(line)) ELSE t

\* One line of another file, with the URI taken from it as well
SiblingLine_WithUri(t, line) ==
    SiblingBranch(SiblingRev(IF ~t.uri.some /\ IsGitUriLine(line)
                             THEN Assign(t, "uri", Normalized(MatchUri(line)))
                             ELSE t,
                             line),
                  line)

\* lines 260-287, 314-339: one line of another file
SiblingLine(t, line) == SiblingBranch(SiblingRev(t, line), line)

\* lines 289, 292, 341: "if src_rev and src_branch"
BothFound(t) == Truthy(t.rev) /\ Truthy(t.branch)

\* lines 258-290: the lines of a machine-specific file; the loop breaks
\* after the line that leaves both found
RECURSIVE ScanCandidate(_, _)
BreakIfBoth(t, rest) == IF BothFound(t) THEN t ELSE ScanCandidate(t, rest)

ScanCandidate(t, ls) ==
    IF ls = <<>> THEN t
    ELSE BreakIfBoth(SiblingLine(t, Head(ls)), Tail(ls))

\* lines 312-339: all the lines of a file of the directory
RECURSIVE ScanListed(_, _)
ScanListed(t, ls) ==
    IF ls = <<>> THEN t
    ELSE ScanListed(SiblingLine(t, Head(ls)), Tail(ls))

\* Pieces of recipe text, each some physical lines, that the files of the
\* model are made of
ChunkText(id) ==
    CASE id = "uri1" -> <<<<"S","R","C","_","U","R","I"," ","="," ","\"","g","i","t",":","/","/","g","i","t","h","u","b",".","c","o","m","/","a","/","b",".","g","i","t",";","x","=","$","{","S","R","C","R","E","V","}","\"">>>>
      [] id = "uri2" -> <<<<"S","R","C","_","U","R","I"," ","+","="," ","\"","f","i","l","e",":","/","/","g","i","t",".","p","a","t","c","h","\"">>,
                          <<"S","R","C","_","U","R","I"," ","="," ","\"","h","t","t","p","s",":","/","/","h",".","o","r","g","/","c",".","g","i","t","\"">>>>
      [] id = "rev1" -> <<<<"S","R","C","R","E","V"," ","="," ","\"","a","b","c","d","e","f","1","2","\"">>>>
      [] id = "rev2" -> <<<<"S","R","C","R","E","V"," ","?","="," ","\"","9","\"">>, <<"S","R","C","R","E","V"," ","="," ","\\"," ">>, <<>>, <<" "," "," ","'","1","2","3","4","5","6","'">>>>
      [] id = "branch1" -> <<<<"S","R","C","B","R","A","N","C","H"," ","="," ","\"","m","a","i","n","\"">>>>
      [] id = "branch2" -> <<<<"S","R","C","B","R","A","N","C","H"," ","="," ","d","e","v",";">>>>
      [] id = "rev10" -> <<<<"S","R","C","R","E","V"," ","="," ","\"","0","1","2","3","4","5","6","7","8","9","a","b","\"">>>>
      [] id = "rev_a" -> <<<<"S","R","C","R","E","V"," ","="," ","\"","a","a","a","a","a","a","\"">>>>
      [] id = "rev_b" -> <<<<"S","R","C","R","E","V"," ","="," ","\"","b","b","b","b","b","b","\"">>>>
      [] id = "rev_c" -> <<<<"S","R","C","R","E","V"," ","="," ","\"","c","c","c","c","c","c","\"">>>>
      [] id = "branch_rel" -> <<<<"S","R","C","B","R","A","N","C","H"," ","="," ","\"","r","e","l","\"">>>>
      [] id = "branch_ext" -> <<<<"S","R","C","B","R","A","N","C","H"," ","="," ","\"","e","x","t","\"">>>>
      [] id = "uri_q" -> <<<<"S","R","C","_","U","R","I"," ","="," ","\"","g","i","t",":","/","/","g","i","t","h","u","b",".","c","o","m","/","a","/","b",".","g","i","t","\"">>>>
      [] id = "uri_ssh" -> <<<<"S","R","C","_","U","R","I"," ","="," ","\"","g","i","t","@","g","i","t","h","u","b",".","c","o","m",":","a","/","b",".","g","i","t",";","x","\"">>>>
      [] id = "uri_https" -> <<<<"S","R","C","_","U","R","I"," ","="," ","\"","h","t","t","p","s",":","/","/","g","i","t","h","u","b",".","c","o","m","/","a","/","b",".","g","i","t",";","x","\"">>>>
      [] id = "mix_ur" -> <<<<"S","R","C","_","U","R","I"," ","="," ","\"","g","i","t",":","/","/","h",".","o","r","g","/","s",";","b","r","a","n","c","h","=","$","{","S","R","C","B","R","A","N","C","H","}","\""," ","S","R","C","R","E","V"," ","="," ","\"","d","d","d","d","d","d","\"">>>>
      [] id = "mix_rb" -> <<<<"S","R","C","B","R","A","N","C","H"," ","="," ","\"","x","\""," ","S","R","C","R","E","V"," ","="," ","\"","e","e","e","e","e","e","\"">>>>
      [] id = "uri_s" -> <<<<"S","R","C","_","U","R","I"," ","="," ","\"","g","i","t",":","/","/","h",".","o","r","g","/","s","\"">>>>

\* The physical lines of a file made of the chunks; an empty file is one
\* empty line
RECURSIVE Concat(_)
Concat(cs) == IF cs = <<>> THEN <<>> ELSE Head(cs) \o Concat(Tail(cs))


\* A directory: its files in os.listdir order, each with its name, the
\* chunks of its text and whether it can be opened and read
DirFile(name, chunks, readable) ==
    [name |-> name, chunks |-> chunks, readable |-> readable]

\* file.read(), as physical lines
Content(f) ==
    IF f.chunks = <<>> THEN <<<<>>>>
    ELSE Concat([i \in 1..Len(f.chunks) |-> ChunkText(f.chunks[i])])

Names(dir) == {dir[i].name : i \in 1..Len(dir)}

FileNamed(dir, name) == dir[CHOOSE i \in 1..Len(dir) : dir[i].name = name]

\* lines 228-233
BaseName(filename) ==
    IF EndsWith(filename, <<".","i","n","c">>) THEN SubSeq(filename, 1, Len(filename) - 4)
    ELSE IF EndsWith(filename, <<".","b","b">>) THEN SubSeq(filename, 1, Len(filename) - 3)
    ELSE filename

\* lines 238-245
possible_patterns(base_name, mtype) ==
    <<base_name \o <<"_">> \o mtype \o <<".","b","b">>,
      base_name \o <<"-">> \o mtype \o <<".","b","b">>,
      base_name \o <<".">> \o mtype \o <<".","b","b">>,
      <<"c","o","m","m","o","n","_">> \o mtype \o <<".","i","n","c">>,
      <<"c","o","m","m","o","n","_">> \o mtype \o <<".","b","b">>,
      base_name \o <<"_">> \o mtype \o <<".","i","n","c">>>>

\* The progress of one call: the triple, the files opened so far, in order,
\* and whether an exception left the function
Progress(t, ops, raised) == [t |-> t, opened |-> ops, raised |-> raised]

\* lines 253-290, 307-339: the file f is opened; when it can be read, its
\* lines are scanned, all of them in Step 3 and up to the break in Step 2
OpenAndScan(p, f, all) ==
    IF ~f.readable THEN Progress(p.t, Append(p.opened, f.name), TRUE)
    ELSE Progress(IF all THEN ScanListed(p.t, LogicalLines(Content(f)))
                  ELSE ScanCandidate(p.t, LogicalLines(Content(f))),
                  Append(p.opened, f.name), FALSE)

\* lines 247-295: the machine-specific candidates, in order; a candidate
\* that exists is opened, and the loop ends once both are found
RECURSIVE CandidateLoop(_, _, _)
\* The loop going on to the next candidate although both are found
NextCandidate_NoBreak(p, dir, cands) ==
    IF p.raised THEN p ELSE CandidateLoop(p, dir, cands)

NextCandidate(p, dir, cands) ==
    IF p.raised \/ BothFound(p.t) THEN p ELSE CandidateLoop(p, dir, cands)

CandidateLoop(p, dir, cands) ==
    IF cands = <<>> THEN p
    ELSE IF Head(cands) \notin Names(dir) THEN CandidateLoop(p, dir, Tail(cands))
    ELSE NextCandidate(OpenAndScan(p, FileNamed(dir, Head(cands)), FALSE),
                       dir, Tail(cands))

\* line 303
IsListedCandidate(filename, base_name) ==
    EndsWith(filename, <<".","b","b">>) /\ StartsWith(filename, base_name)

\* lines 301-344: the .bb files of the directory that start with the base
\* name, in os.listdir order; an exception ends the loop and is logged
RECURSIVE ListingLoop(_, _, _)
NextListed(p, listing, base_name) ==
    IF p.raised THEN [p EXCEPT !.raised = FALSE]
    ELSE IF BothFound(p.t) THEN p
    ELSE ListingLoop(p, listing, base_name)

ListingLoop(p, listing, base_name) ==
    IF listing = <<>> THEN p
    ELSE IF ~IsListedCandidate(Head(listing).name, base_name)
    THEN ListingLoop(p, Tail(listing), base_name)
    ELSE NextListed(OpenAndScan(p, Head(listing), TRUE), Tail(listing),
                    base_name)

\* line 222: "if machine_type and (src_rev is None or src_branch is None)"
NeedsFallback(t, mtype) ==
    Truthy(mtype) /\ (~t.rev.some \/ ~t.branch.some)

\* line 298
StillMissing(t) == ~t.rev.some \/ ~t.branch.some

\* lines 222-295
Step2(p, dir, filename, mtype) ==
    CandidateLoop(p, dir,
                  possible_patterns(BaseName(filename), mtype.v))

\* lines 297-344
Step3(p, dir, filename) ==
    IF StillMissing(p.t) THEN ListingLoop(p, dir, BaseName(filename))
    ELSE p

\* lines 128-217: the primary file read and scanned
Step1(f) ==
    IF ~f.readable THEN Progress(Triple(None, None, None), <<f.name>>, TRUE)
    ELSE Progress(ScanPrimary(Triple(None, None, None), LogicalLines(Content(f))),
                  <<f.name>>, FALSE)

\* lines 297-347: Step 3 unless Step 2 raised
AfterStep2(p, dir, filename) ==
    IF p.raised THEN p ELSE Step3(p, dir, filename)

\* lines 222-347: Steps 2 and 3 when the machine type is given and the
\* revision or the branch is missing
AfterStep1(p, dir, filename, mtype) ==
    IF p.raised \/ ~NeedsFallback(p.t, mtype) THEN p
    ELSE AfterStep2(Step2(p, dir, filename, mtype), dir, filename)

\* lines 119-347: the whole call
ExtractSrcInfo(dir, filename, mtype) ==
    AfterStep1(Step1(FileNamed(dir, filename)), dir, filename, mtype)

\* The variables of the call take the progress p, and pc the position at
\* when no exception was raised
Proceed(p, at) ==
    /\ src_uri' = p.t.uri
    /\ src_rev' = p.t.rev
    /\ src_branch' = p.t.branch
    /\ opened' = p.opened
    /\ pc' = IF p.raised THEN "x_raised" ELSE at

\* lines 128-135: the primary file is opened, read and split
XOpen ==
    /\ pc = "x_open"
    /\ opened' = <<recipe_filename>>
    /\ IF FileNamed(xdir, recipe_filename).readable
       THEN /\ lines' = LogicalLines(Content(FileNamed(xdir, recipe_filename)))
            /\ pc' = "x_lines"
       ELSE /\ pc' = "x_raised"
            /\ UNCHANGED lines
    /\ UNCHANGED <<xdir, recipe_filename, machine_type, lidx, src_uri, src_rev,
                   src_branch, package_names, manifestVars, locateVars, driverVars>>

\* lines 139-217: one iteration of the loop over the primary file's lines
XLine ==
    /\ pc = "x_lines"
    /\ lidx < Len(lines)
    /\ Proceed(Progress(PrimaryLine(Triple(src_uri, src_rev, src_branch),
                                    lines[lidx + 1]),
                        opened, FALSE),
               "x_lines")
    /\ lidx' = lidx + 1
    /\ UNCHANGED <<xdir, recipe_filename, machine_type, lines,
                   package_names, manifestVars, locateVars, driverVars>>

\* lines 222-295: the machine-specific files
XStep2 ==
    /\ pc = "x_lines"
    /\ lidx = Len(lines)
    /\ IF NeedsFallback(Triple(src_uri, src_rev, src_branch), machine_type)
       THEN Proceed(Step2(Progress(Triple(src_uri, src_rev, src_branch),
                                   opened, FALSE),
                          xdir, recipe_filename, machine_type),
                    "x_step3")
       ELSE /\ pc' = "x_done"
            /\ UNCHANGED <<src_uri, src_rev, src_branch, opened>>
    /\ UNCHANGED <<xdir, recipe_filename, machine_type, lines, lidx,
                   package_names, manifestVars, locateVars, driverVars>>

\* lines 297-347: the files of the directory, and the return
XStep3 ==
    /\ pc = "x_step3"
    /\ Proceed(Step3(Progress(Triple(src_uri, src_rev, src_branch),
                              opened, FALSE),
                     xdir, recipe_filename),
               "x_done")
    /\ UNCHANGED <<xdir, recipe_filename, machine_type, lines, lidx,
                   package_names, manifestVars, locateVars, driverVars>>

\* The texts of the primary file that the model draws from, as chunks: with
\* none, one or two declarations of each kind, in several orders
PrimaryTexts ==
    {<<>>, <<"uri1">>, <<"rev1">>, <<"branch1">>,
     <<"uri_q">>, <<"uri_ssh">>, <<"uri_https">>,
     <<"mix_ur">>, <<"mix_rb">>,
     <<"uri1", "uri2">>, <<"rev1", "rev2">>, <<"rev2", "rev1">>,
     <<"branch1", "branch2">>,
     <<"uri1", "rev1">>, <<"uri2", "branch2">>, <<"rev2", "branch1">>,
     <<"uri1", "rev1", "branch1">>, <<"branch2", "rev2", "uri2">>,
     <<"uri2", "rev2", "branch2", "uri1", "rev1", "branch1">>}

PrimaryName == <<"f","o","o",".","b","b">>
Qualifier == <<"2",".","0">>

\* The other files the model puts in the recipe's directory: two
\* machine-specific candidates of Step 2, two files that only Step 3 reads,
\* and a candidate of each step that cannot be read
Siblings ==
    {DirFile(<<"f","o","o","_","2",".","0",".","b","b">>, <<"rev_a">>, TRUE),
     DirFile(<<"c","o","m","m","o","n","_","2",".","0",".","i","n","c">>, <<"uri_s", "branch_rel", "rev_b">>, TRUE),
     DirFile(<<"f","o","o","-","e","x","t","r","a",".","b","b">>, <<"uri_s", "rev_c", "branch_ext">>, TRUE),
     DirFile(<<"f","o","o","-","m","o","r","e",".","b","b">>, <<"rev_b">>, TRUE),
     DirFile(<<"f","o","o","_","2",".","0",".","i","n","c">>, <<>>, FALSE),
     DirFile(<<"f","o","o","-","b","a","d",".","b","b">>, <<>>, FALSE)}

PrimaryFiles ==
    {DirFile(PrimaryName, cs, TRUE) : cs \in PrimaryTexts}
    \cup {DirFile(PrimaryName, <<>>, FALSE)}

NoRepeats(l) == \A i, j \in 1..Len(l) : i # j => l[i] # l[j]

InsertAt(l, k, x) == SubSeq(l, 1, k - 1) \o <<x>> \o SubSeq(l, k, Len(l))

\* The directory listings: the recipe file among other files, no file
\* twice, in any order (os.listdir promises none)
Listings ==
    UNION {{InsertAt(sibs, k, f) : k \in 1..(Len(sibs) + 1), f \in PrimaryFiles} :
           sibs \in {l \in SeqsUpTo(Siblings, MaxDirFiles - 1) : NoRepeats(l)}}

InitExtract ==
    /\ pc = "x_open"
    /\ xdir \in Listings
    /\ recipe_filename = PrimaryName
    /\ machine_type \in {None, Some(Qualifier)}
    /\ lines = <<>>
    /\ lidx = 0
    /\ opened = <<>>
    /\ src_uri = None
    /\ src_rev = None
    /\ src_branch = None
    /\ package_names = <<>>
    /\ manifest = <<>>
    /\ mpos = 0
    /\ entries = <<>>
    /\ warnings = <<>>
    /\ walk = <<>>
    /\ fidx = 0
    /\ recipes_found = <<>>
    /\ recipes_not_found = <<>>
    /\ recipe_paths = <<>>
    /\ DriverIdle

NextExtract == XOpen \/ XLine \/ XStep2 \/ XStep3

SpecExtract == InitExtract /\ [][NextExtract]_vars

----------------------------------------------------------------------------
(* main: the machine type of a recipe *)

Digits == {"0","1","2","3","4","5","6","7","8","9"}

\* (\d+)<sep>(\d+) at position i of s: the two numbers and the position
\* after the match. \d+ takes the whole run of digits: a shorter first
\* number would be followed by a digit and not by the separator
TwoNumbersAt(s, i, sep) ==
    LET e1 == RunIn(s, i, Digits)
        e2 == RunIn(s, e1 + 1, Digits)
    IN IF i >= 1 /\ e1 > i /\ e1 <= Len(s) /\ s[e1] = sep /\ e2 > e1 + 1
       THEN [some |-> TRUE, g1 |-> SubSeq(s, i, e1 - 1),
             g2 |-> SubSeq(s, e1 + 1, e2 - 1), end |-> e2]
       ELSE [some |-> FALSE, g1 |-> <<>>, g2 |-> <<>>, end |-> 0]

\* The least position of s where (\d+)<sep>(\d+) matches, 0 when none
FirstTwoNumbers(s, sep) ==
    FirstHit({i \in 1..Len(s) : TwoNumbersAt(s, i, sep).some})

\* The first pattern matching nothing
SearchDotted_Absent(s) == None

\* line 425: re.search(r'(\d+\.\d+)', machine), one group
SearchDotted(s) ==
    LET i == FirstTwoNumbers(s, ".") IN
    IF i = 0 THEN None
    ELSE Some(SubSeq(s, i, TwoNumbersAt(s, i, ".").end - 1))

\* line 426: re.search(r'rcrip(\d+)-(\d+)', machine), two groups joined by
\* a dot at lines 434-435
SearchRcrip(s) ==
    LET i == FirstHit({j \in 1..Len(s) :
                          LitAt(s, j, <<"r","c","r","i","p">>)
                          /\ TwoNumbersAt(s, j + 5, "-").some}) IN
    IF i = 0 THEN None
    ELSE LET m == TwoNumbersAt(s, i + 5, "-") IN Some(m.g1 \o <<".">> \o m.g2)

\* lines 427, 428: re.search(r'.*?(\d+)<sep>(\d+)', machine): the lazy
\* prefix stops at the first position where the two numbers match
SearchAnyPair(s, sep) ==
    LET i == FirstTwoNumbers(s, sep) IN
    IF i = 0 THEN None
    ELSE LET m == TwoNumbersAt(s, i, sep) IN Some(m.g1 \o <<".">> \o m.g2)

\* The patterns tried with the third one first
MachineType_DashFirst(m) ==
    OrElse(SearchAnyPair(m, "-"),
           OrElse(SearchDotted(m),
                  OrElse(SearchRcrip(m), SearchAnyPair(m, "."))))

\* lines 422-438: the first pattern that matches gives the machine type
MachineType(m) ==
    OrElse(SearchDotted(m),
           OrElse(SearchRcrip(m),
                  OrElse(SearchAnyPair(m, "-"), SearchAnyPair(m, "."))))

\* line 418: the machine of the first entry of the buildlist for the recipe
MachineOf(es, recipe) ==
    LET i == FirstHit({j \in 1..Len(es) : es[j][2] = recipe}) IN
    IF i = 0 THEN None ELSE Some(es[i][1])

\* lines 421-440: machine_type stays None for an empty machine
MachineTypeOf(m) == IF Truthy(m) THEN MachineType(m.v) ELSE None

\* os.path.dirname(path): the text up to the last slash, without its
\* trailing slashes unless it is made of slashes only
Dirname(path) ==
    LET seps == {i \in 1..Len(path) : path[i] = "/"} IN
    IF seps = {} THEN <<>>
    ELSE LET others == {i \in 1..MaxOf(seps) : path[i] # "/"} IN
         IF others = {} THEN SubSeq(path, 1, MaxOf(seps))
         ELSE SubSeq(path, 1, MaxOf(others))

----------------------------------------------------------------------------
(* clone_and_describe_repo *)

\* What one git invocation can do: exit with status 0, exit with another
\* status (subprocess.CalledProcessError under check=True), or not start at
\* all (an OSError of subprocess.run, such as FileNotFoundError when there
\* is no git executable)
GitOutcomes == {"ok", "CalledProcessError", "OSError"}

\* What git describe --tags prints
DescribeOutputs == {<<"v","1",".","0","\n">>, <<"v","1",".","0","-","3","-","g","a","b","c","\n">>}

\* No tag at all after a failed git invocation
FallbackTag_Absent(rev) == None

\* line 391: f"rev-{src_rev[:8]}" if src_rev else None
FallbackTag(rev) ==
    IF Truthy(rev)
    THEN Some(<<"r","e","v","-">> \o SubSeq(rev.v, 1, IF Len(rev.v) < 8 THEN Len(rev.v) ELSE 8))
    ELSE None

\* The working directory is kept when the with block is left
Cleanup_Kept(n) == n

\* line 350: TemporaryDirectory.__exit__ removes the working directory,
\* however the with block is left
Cleanup(n) == n - 1

\* line 350: with tempfile.TemporaryDirectory() as repo_dir
REnter ==
    /\ pc = "r_enter"
    /\ tmpdirs' = tmpdirs + 1
    /\ git_failed' = "none"
    /\ tag' = None
    /\ pc' = "r_clone"
    /\ UNCHANGED <<ridx, machine, package_info, incomplete, raising, output,
                   package_names, manifestVars, locateVars, extractVars>>

\* One git invocation whose failure is noted and does not end the call
GitStep_GoingOn(here, step, next) ==
    /\ pc = here
    /\ \E outcome \in GitOutcomes :
          CASE outcome = "ok" ->
                  /\ pc' = next
                  /\ UNCHANGED <<git_failed, tag, raising>>
            [] outcome = "CalledProcessError" ->
                  /\ git_failed' = step
                  /\ tag' = FallbackTag(src_rev)
                  /\ pc' = next
                  /\ UNCHANGED raising
            [] outcome = "OSError" ->
                  /\ git_failed' = step
                  /\ raising' = TRUE
                  /\ pc' = "r_exit"
                  /\ UNCHANGED tag
    /\ UNCHANGED <<ridx, machine, package_info, incomplete, tmpdirs, output,
                   package_names, manifestVars, locateVars, extractVars>>

\* One git invocation under check=True, inside the try block: on status 0
\* the function goes on; CalledProcessError is caught at line 387 and the
\* fallback tag is returned; any other exception leaves the try block
GitStep(here, step, next) ==
    /\ pc = here
    /\ \E outcome \in GitOutcomes :
          CASE outcome = "ok" ->
                  /\ pc' = next
                  /\ UNCHANGED <<git_failed, tag, raising>>
            [] outcome = "CalledProcessError" ->
                  /\ git_failed' = step
                  /\ tag' = FallbackTag(src_rev)
                  /\ pc' = "r_exit"
                  /\ UNCHANGED raising
            [] outcome = "OSError" ->
                  /\ git_failed' = step
                  /\ raising' = TRUE
                  /\ pc' = "r_exit"
                  /\ UNCHANGED tag
    /\ UNCHANGED <<ridx, machine, package_info, incomplete, tmpdirs, output,
                   package_names, manifestVars, locateVars, extractVars>>

\* lines 358-364: git clone -b src_branch git_url repo_dir
RClone == GitStep("r_clone", "clone", "r_checkout")

\* lines 367-373: git checkout src_rev
RCheckout == GitStep("r_checkout", "checkout", "r_describe")

\* lines 376-382: git describe --tags
RDescribe == GitStep("r_describe", "describe", "r_tag")

\* lines 383-385: tag = result.stdout.strip(); return tag
RTag ==
    /\ pc = "r_tag"
    /\ \E stdout \in DescribeOutputs : tag' = Some(Strip(stdout))
    /\ pc' = "r_exit"
    /\ UNCHANGED <<ridx, machine, package_info, incomplete, tmpdirs,
                   git_failed, raising, output, package_names, manifestVars,
                   locateVars, extractVars>>

\* line 350: the with block is left, by a return or by an exception
RExit ==
    /\ pc = "r_exit"
    /\ tmpdirs' = Cleanup(tmpdirs)
    /\ pc' = IF raising THEN "main_raised" ELSE "main_record"
    /\ UNCHANGED <<ridx, machine, package_info, incomplete, git_failed,
                   raising, tag, output, package_names, manifestVars,
                   locateVars, extractVars>>

----------------------------------------------------------------------------
(* main *)

\* The test of line 444 on the URI alone
Complete_UriOnly(t) == Truthy(t.uri)

\* line 444: "if src_uri and src_rev and src_branch"
Complete(t) == Truthy(t.uri) /\ Truthy(t.rev) /\ Truthy(t.branch)

\* The recipe directories of the model, by kind:
\*   "ok"      the recipe declares all three
\*   "norev"   no file declares the revision
\*   "sib"     the revision is in the machine-specific file <recipe>_2.0.bb
\*   "bad"     the recipe file cannot be read
\*   "badsib"  the machine-specific file <recipe>_2.0.inc cannot be read
DriverKinds == {<<"o","k">>, <<"n","o","r","e","v">>, <<"s","i","b">>, <<"b","a","d">>, <<"b","a","d","s","i","b">>}

RecipeDir(kind, k) == <<"l","/">> \o kind \o <<"/">> \o k

RecipePath(kind, k) == Join(RecipeDir(kind, k), k \o <<".","b","b">>)

RecipeListing(kind, k) ==
    CASE kind = <<"o","k">> ->
            <<DirFile(k \o <<".","b","b">>, <<"uri1", "rev10", "branch1">>, TRUE)>>
      [] kind = <<"n","o","r","e","v">> ->
            <<DirFile(k \o <<".","b","b">>, <<"uri1", "branch1">>, TRUE)>>
      [] kind = <<"s","i","b">> ->
            <<DirFile(k \o <<"_","2",".","0",".","b","b">>, <<"rev_a">>, TRUE),
              DirFile(k \o <<".","b","b">>, <<"uri1", "branch1">>, TRUE)>>
      [] kind = <<"b","a","d">> ->
            <<DirFile(k \o <<".","b","b">>, <<>>, FALSE)>>
      [] kind = <<"b","a","d","s","i","b">> ->
            <<DirFile(k \o <<".","b","b">>, <<"uri1", "branch1">>, TRUE),
              DirFile(k \o <<"_","2",".","0",".","i","n","c">>, <<>>, FALSE)>>

DriverPkgs == {<<"f","o","o">>, <<"b","a","r">>, <<"b","a","z">>}

\* The layer tree of the model: each directory with its files
DriverTree ==
    {[dir |-> RecipeDir(kind, k), listing |-> RecipeListing(kind, k)] :
        kind \in DriverKinds, k \in DriverPkgs}

\* os.listdir(d), with what each file holds
ListDir(d) == (CHOOSE e \in DriverTree : e.dir = d).listing

\* line 442: extract_src_info(path, machine_type)
ExtractFrom(path, mtype) ==
    ExtractSrcInfo(ListDir(Dirname(path)), Basename(path), mtype)

\* lines 442-459: what main does with the result p of extract_src_info: an
\* exception leaves main, a complete recipe goes to the resolver, and an
\* incomplete one is logged before the loop goes on
Extracted(recipe, p) ==
    /\ src_uri' = p.t.uri
    /\ src_rev' = p.t.rev
    /\ src_branch' = p.t.branch
    /\ opened' = p.opened
    /\ IF p.raised
       THEN /\ raising' = TRUE
            /\ pc' = "main_raised"
            /\ UNCHANGED <<ridx, incomplete>>
       ELSE IF Complete(p.t)
       THEN /\ pc' = "r_enter"
            /\ UNCHANGED <<ridx, incomplete, raising>>
       ELSE /\ incomplete' = Append(incomplete, recipe)
            /\ ridx' = ridx + 1
            /\ pc' = "main_loop"
            /\ UNCHANGED raising

\* lines 416-444, 457-459: one recipe of recipe_paths.items() is taken, its
\* machine type derived and its declarations extracted
MainExtract ==
    /\ pc = "main_loop"
    /\ ridx < Len(recipe_paths)
    /\ machine' = MachineOf(entries, recipe_paths[ridx + 1].key)
    /\ machine_type' = MachineTypeOf(machine')
    /\ Extracted(recipe_paths[ridx + 1].key,
                 ExtractFrom(recipe_paths[ridx + 1].val, machine_type'))
    /\ UNCHANGED <<package_info, tmpdirs, git_failed, tag, output, xdir,
                   recipe_filename, lines, lidx, package_names, manifestVars,
                   locateVars>>

\* The record stored and the file written at once, inside the loop
MainRecord_Saving ==
    /\ pc = "main_record"
    /\ package_info' =
          DictSet(package_info, recipe_paths[ridx + 1].key,
                  [machine |-> machine,
                   recipe_path |-> recipe_paths[ridx + 1].val,
                   src_uri |-> src_uri, src_rev |-> src_rev,
                   src_branch |-> src_branch, tag |-> tag])
    /\ output' = [written |-> TRUE, data |-> package_info']
    /\ ridx' = ridx + 1
    /\ pc' = "main_loop"
    /\ UNCHANGED <<machine, incomplete, tmpdirs, git_failed, raising, tag,
                   package_names, manifestVars, locateVars, extractVars>>

\* lines 445-456: tag = clone_and_describe_repo(...) has returned; the
\* record of the recipe is stored
MainRecord ==
    /\ pc = "main_record"
    /\ package_info' =
          DictSet(package_info, recipe_paths[ridx + 1].key,
                  [machine |-> machine,
                   recipe_path |-> recipe_paths[ridx + 1].val,
                   src_uri |-> src_uri, src_rev |-> src_rev,
                   src_branch |-> src_branch, tag |-> tag])
    /\ ridx' = ridx + 1
    /\ pc' = "main_loop"
    /\ UNCHANGED <<machine, incomplete, tmpdirs, git_failed, raising, tag,
                   output, package_names, manifestVars, locateVars,
                   extractVars>>

\* lines 461-463: final_output.json is written after the loop
MainWrite ==
    /\ pc = "main_loop"
    /\ ridx = Len(recipe_paths)
    /\ output' = [written |-> TRUE, data |-> package_info]
    /\ pc' = "main_done"
    /\ UNCHANGED <<ridx, machine, package_info, incomplete, tmpdirs,
                   git_failed, raising, tag, package_names, manifestVars,
                   locateVars, extractVars>>

\* The buildlists of the model: entries (machine, package)
DriverBuildlists ==
    {<<<<<<"r","2","-","0">>, <<"f","o","o">>>>, <<<<"q","e","m","u">>, <<"b","a","r">>>>, <<<<"r","c","r","i","p","2","-","0">>, <<"b","a","z">>>>,
       <<<<"v","3",".","1">>, <<"f","o","o">>>>>>,
     <<<<<<>>, <<"f","o","o">>>>, <<<<"v","2",".","0">>, <<"b","a","r">>>>, <<<<"r","3","-","1">>, <<"b","a","z">>>>>>}

\* lines 82, 97, 111: recipe_paths[pkg] = path for each recipe of rs, in the
\* order find_recipes records them
RECURSIVE Recorded(_, _)
Recorded(paths, rs) ==
    IF rs = <<>> THEN paths
    ELSE Recorded(DictSet(paths, Head(rs).key, Head(rs).val), Tail(rs))

\* The recipe indexes of the model: what find_recipes returns after up to
\* MaxRecipes recipes were recorded, in any order, each of one of the
\* kinds, the same package more than once included
DriverIndexes ==
    UNION {{Recorded(<<>>, [i \in 1..Len(ks) |->
                [key |-> ks[i], val |-> RecipePath(kinds[i], ks[i])]]) :
               kinds \in [1..Len(ks) -> DriverKinds]} :
           ks \in SeqsUpTo(DriverPkgs, MaxRecipes)}

\* lines 54, 83-84: recipes_not_found after the recipes ks were recorded
RECURSIVE NotFoundAfter(_, _)
NotFoundAfter(names, ks) ==
    IF ks = <<>> THEN names
    ELSE NotFoundAfter(IF Head(ks) \in Range(names)
                       THEN RemoveFirst(names, Head(ks)) ELSE names,
                       Tail(ks))

\* lines 405-414: the buildlist has been read and the recipes located
Init ==
    /\ pc = "main_loop"
    /\ entries \in DriverBuildlists
    /\ package_names = [i \in 1..Len(entries) |-> entries[i][2]]
    /\ recipe_paths \in DriverIndexes
    /\ recipes_found = [i \in 1..Len(recipe_paths) |-> recipe_paths[i].key]
    /\ recipes_not_found = NotFoundAfter(package_names, recipes_found)
    /\ manifest = <<>>
    /\ mpos = 0
    /\ warnings = <<>>
    /\ walk = <<>>
    /\ fidx = 0
    /\ xdir = <<>>
    /\ recipe_filename = <<>>
    /\ machine_type = None
    /\ lines = <<>>
    /\ lidx = 0
    /\ opened = <<>>
    /\ src_uri = None
    /\ src_rev = None
    /\ src_branch = None
    /\ DriverIdle

Next ==
    \/ MainExtract
    \/ REnter
    \/ RClone
    \/ RCheckout
    \/ RDescribe
    \/ RTag
    \/ RExit
    \/ MainRecord
    \/ MainWrite

Spec == Init /\ [][Next]_vars

\* What a step of MainExtract does to pc and ridx: the next recipe goes to
\* the resolver, or it is logged as incomplete, or the call raises
ExtractStep ==
    /\ pc = "main_loop"
    /\ ridx < Len(recipe_paths)
    /\ \/ pc' \in {"r_enter", "main_raised"} /\ ridx' = ridx
       \/ pc' = "main_loop" /\ ridx' = ridx + 1

\* The run goes on as long as a step is possible: the interpreter executes
\* the next statement, extract_src_info returns or raises, and every git
\* invocation returns or raises
SpecFair ==
    /\ Spec
    /\ WF_<<pc, ridx>>(ExtractStep)
    /\ WF_vars(REnter) /\ WF_vars(RClone) /\ WF_vars(RCheckout)
    /\ WF_vars(RDescribe) /\ WF_vars(RTag) /\ WF_vars(RExit)
    /\ WF_vars(MainRecord) /\ WF_vars(MainWrite)

----------------------------------------------------------------------------
(* main: find_recipes followed by the driver loop *)

\* lines 405-410: the buildlist has been read, and find_recipes starts its
\* walk over a tree of up to MaxRecipes directories of the layer tree, the
\* files of each directory one after the other
InitRun ==
    /\ pc = "walk"
    /\ entries \in DriverBuildlists
    /\ package_names = [i \in 1..Len(entries) |-> entries[i][2]]
    /\ \E ds \in {l \in SeqsUpTo(DriverTree, MaxRecipes) : NoRepeats(l)} :
          walk = Concat([i \in 1..Len(ds) |->
                            [j \in 1..Len(ds[i].listing) |->
                                File(ds[i].dir, ds[i].listing[j].name)]])
    /\ fidx = 0
    /\ recipes_found = <<>>
    /\ recipes_not_found = package_names
    /\ recipe_paths = <<>>
    /\ manifest = <<>>
    /\ mpos = 0
    /\ warnings = <<>>
    /\ xdir = <<>>
    /\ recipe_filename = <<>>
    /\ machine_type = None
    /\ lines = <<>>
    /\ lidx = 0
    /\ opened = <<>>
    /\ src_uri = None
    /\ src_rev = None
    /\ src_branch = None
    /\ DriverIdle

\* lines 410-416: find_recipes has returned and the loop over recipe_paths
\* starts
MainStart ==
    /\ pc = "walk_done"
    /\ pc' = "main_loop"
    /\ UNCHANGED <<package_names, manifestVars, locateVars, extractVars,
                   driverVars>>

SpecRun == InitRun /\ [][VisitFile \/ WalkReturn \/ MainStart \/ Next]_vars

----------------------------------------------------------------------------
(* main: the machine and the machine type, for group strings of all shapes *)

\* The pieces the group strings of the model are made of
GroupPieces ==
    {<<"r","c","r","i","p">>, <<"2","-","0">>, <<"3",".","1">>, <<"1">>, <<"-">>, <<".">>, <<"v">>}

\* The group strings: up to MaxPieces pieces, one after the other
GroupStrings == {Concat(ps) : ps \in SeqsUpTo(GroupPieces, MaxPieces)}

\* lines 418-440: the machine of the recipe and its machine type
QDerive ==
    /\ pc = "q_derive"
    /\ machine' = MachineOf(entries, recipe_paths[ridx + 1].key)
    /\ machine_type' = MachineTypeOf(machine')
    /\ pc' = "q_done"
    /\ UNCHANGED <<ridx, package_info, incomplete, output, tmpdirs, git_failed,
                   tag, raising, xdir, recipe_filename, lines, lidx, opened,
                   src_uri, src_rev, src_branch, package_names, manifestVars,
                   locateVars>>

\* lines 405-416: a buildlist of two entries, one of them with any group
\* string, for the packages foo and bar, and the recipe of foo
InitQualifier ==
    /\ pc = "q_derive"
    /\ \E g \in GroupStrings, p1, p2 \in {<<"f","o","o">>, <<"b","a","r">>} :
          entries \in {<<<<g, p1>>, <<<<"v","3",".","1">>, p2>>>>, <<<<<<"v","3",".","1">>, p2>>, <<g, p1>>>>}
    /\ package_names = [i \in 1..Len(entries) |-> entries[i][2]]
    /\ recipe_paths = <<[key |-> <<"f","o","o">>, val |-> RecipePath(<<"o","k">>, <<"f","o","o">>)]>>
    /\ recipes_found = <<<<"f","o","o">>>>
    /\ recipes_not_found = NotFoundAfter(package_names, recipes_found)
    /\ manifest = <<>>
    /\ mpos = 0
    /\ warnings = <<>>
    /\ walk = <<>>
    /\ fidx = 0
    /\ xdir = <<>>
    /\ recipe_filename = <<>>
    /\ machine_type = None
    /\ lines = <<>>
    /\ lidx = 0
    /\ opened = <<>>
    /\ src_uri = None
    /\ src_rev = None
    /\ src_branch = None
    /\ DriverIdle

SpecQualifier == InitQualifier /\ [][QDerive]_vars

----------------------------------------------------------------------------
(* Properties of read_buildlist *)

ColonPositions(l) == {i \in 1..Len(l) : l[i] = ":"}

\* A line of the form mc:<group>:<package>: the prefix and exactly two colons
ThreeFieldMcLine(l) ==
    /\ Len(l) >= 3
    /\ l[1] = "m" /\ l[2] = "c" /\ l[3] = ":"
    /\ Cardinality(ColonPositions(l)) = 2

GroupField(l) ==
    SubSeq(l, MinOf(ColonPositions(l)) + 1, MaxOf(ColonPositions(l)) - 1)

PackageField(l) == SubSeq(l, MaxOf(ColonPositions(l)) + 1, Len(l))

\* The entries expected of the lines, read as they stand in the file
RECURSIVE RawEntries(_)
RawEntries(ls) ==
    IF ls = <<>> THEN <<>>
    ELSE (IF ThreeFieldMcLine(Head(ls))
          THEN <<<<GroupField(Head(ls)), PackageField(Head(ls))>>>>
          ELSE <<>>) \o RawEntries(Tail(ls))

\* The entries expected of the lines with surrounding whitespace removed
RECURSIVE TrimmedEntries(_)
TrimmedEntries(ls) ==
    IF ls = <<>> THEN <<>>
    ELSE (IF ThreeFieldMcLine(Strip(Head(ls)))
          THEN <<<<GroupField(Strip(Head(ls))),
                   PackageField(Strip(Head(ls)))>>>>
          ELSE <<>>) \o TrimmedEntries(Tail(ls))

PackagesOf(es) == [i \in 1..Len(es) |-> es[i][2]]

Consumed == SubSeq(manifest, 1, mpos)

\* C2 as stated: the entry and package sequences hold exactly one element
\* per line that starts with "mc:" and splits on ":" into exactly three
\* fields, (group, package) = (field 2, field 3), in file order with
\* duplicates kept; every other line contributes no entry.
C2_AsStated ==
    pc \in {"read", "read_done"} =>
        /\ entries = RawEntries(Consumed)
        /\ package_names = PackagesOf(RawEntries(Consumed))

\* C2 amended: the same, for the line with its leading and trailing
\* whitespace stripped: one element per line whose stripped text starts with
\* "mc:" and has exactly three colon-delimited fields, (group, package) =
\* (field 2, field 3) of the stripped text, in file order, duplicates kept;
\* every other line contributes no entry.
C2_EntriesOfStrippedLines ==
    pc \in {"read", "read_done"} =>
        /\ entries = TrimmedEntries(Consumed)
        /\ package_names = PackagesOf(TrimmedEntries(Consumed))

\* The reader has returned from a manifest with a repeated entry, a padded
\* line and hence two equal entries in file order
C2_Witness ==
    /\ pc = "read_done"
    /\ manifest = <<<<"m","c",":","r","2","-","0",":","f","o","o">>, <<"m","c",":","o","n","l","y","t","w","o">>, <<" ","m","c",":","r","2","-","0",":","f","o","o"," ">>>>
    /\ entries = <<<<<<"r","2","-","0">>, <<"f","o","o">>>>,
                   <<<<"r","2","-","0">>, <<"f","o","o">>>>>>
    /\ package_names = <<<<"f","o","o">>, <<"f","o","o">>>>

NotAccepted(ls) ==
    {i \in 1..Len(ls) : ~ThreeFieldMcLine(Strip(ls[i]))}

\* C3: every manifest line that is not accepted produces exactly one
\* malformed-line warning, both when it lacks the "mc:" prefix and when it
\* has the prefix but does not split into exactly three fields.
C3_OneWarningPerRejectedLine ==
    pc \in {"read", "read_done"} =>
        Len(warnings) = Cardinality(NotAccepted(Consumed))

----------------------------------------------------------------------------
(* Properties of find_recipes *)

\* C1: once some visited file has been recorded as P's recipe, the
\* RecipeIndex entry for P is never replaced by a file visited later,
\* whichever rule the later file matches P by.
C1_FirstFileWins ==
    [][\A k \in Keys(recipe_paths) :
          /\ k \in Keys(recipe_paths')
          /\ Lookup(recipe_paths', k) = Lookup(recipe_paths, k)]_vars

\* C9: the not-found list contains exactly the packages of the PackageSet
\* that are not keys of the RecipeIndex, duplicates in the PackageSet
\* included: no RecipeIndex key appears in the not-found list.
C9_NotFoundIsComplement ==
    pc \in {"walk", "walk_done"} =>
        Range(recipes_not_found) = Range(package_names) \ Keys(recipe_paths)

\* The file the walk visits next has the generic candidate name
NextIsGeneric ==
    /\ pc = "walk"
    /\ fidx < Len(walk)
    /\ IsRecipeFile(walk[fidx + 1].file)
    /\ StripSuffix(SplitExtRoot(walk[fidx + 1].file)) = <<"c","o","m","m","o","n">>

\* The package names that occur in the directory path of the next file
PackagesInRoot ==
    {p \in Range(package_names) : Contains(walk[fidx + 1].root, p)}

\* C13: a file with the generic name "common" is assigned to a package only
\* if exactly one package name of the PackageSet occurs in its directory
\* path; with two or more (or none) the visit records no recipe.
C13_GenericNeedsExactlyOnePackage ==
    [][(NextIsGeneric /\ Cardinality(PackagesInRoot) # 1)
          => recipe_paths' = recipe_paths]_vars

\* C14: every visited recipe file whose name without the extension equals
\* a package name verbatim, a name ending in "_git" or "-hg" included,
\* has that package resolved in the RecipeIndex after the visit.
C14_VerbatimNameResolved ==
    \A i \in 1..fidx :
        (/\ pc \in {"walk", "walk_done"}
         /\ IsRecipeFile(walk[i].file)
         /\ SplitExtRoot(walk[i].file) \in Range(package_names))
            => SplitExtRoot(walk[i].file) \in Keys(recipe_paths)

\* C20: the rules stop at the first match: the visit of one file records
\* it as the recipe of at most one package.
C20_OnePackagePerFile ==
    [][Cardinality({k \in Keys(recipe_paths') :
                       \/ k \notin Keys(recipe_paths)
                       \/ Lookup(recipe_paths', k) # Lookup(recipe_paths, k)}) <= 1]_vars

\* C27: find_recipes loses no package: during and after the walk, every
\* package name of the PackageSet is a key of the RecipeIndex or an element
\* of the not-found list (a name leaves the not-found list only when its
\* recipe is recorded).
C27_NoPackageLost ==
    pc \in {"walk", "walk_done"} =>
        Range(package_names)
            \subseteq (Keys(recipe_paths) \cup Range(recipes_not_found))

\* The walk is over with one package resolved and the other not found
C27_Witness ==
    /\ pc = "walk_done"
    /\ package_names = <<<<"f","o","o">>, <<"g","e","o","d","a","t","a">>>>
    /\ Keys(recipe_paths) = {<<"f","o","o">>}
    /\ recipes_not_found = <<<<"g","e","o","d","a","t","a">>>>

\* The RecipeIndex when the exact rule and the prefix rule have been applied
\* to the file f, before the directory rule is
BeforeDirectoryRule(f) ==
    PrefixRule(
        ExactRule(LocState(recipes_found, recipes_not_found, recipe_paths),
                  ResolveCommon(StripSuffix(SplitExtRoot(f.file)), f.root,
                                package_names),
                  Join(f.root, f.file), package_names),
        ResolveCommon(StripSuffix(SplitExtRoot(f.file)), f.root, package_names),
        SplitExtRoot(f.file), Join(f.root, f.file), package_names).paths

\* What the directory rule may do to the RecipeIndex before when the file
\* f is visited: keep every entry, and add at most one package, one that
\* the directory's name and the file's name match
DirectoryRuleDid(before, f) ==
    /\ \A k \in Keys(before) :
          /\ k \in Keys(recipe_paths')
          /\ Lookup(recipe_paths', k) = Lookup(before, k)
    /\ Cardinality(Keys(recipe_paths') \ Keys(before)) <= 1
    /\ \A k \in Keys(recipe_paths') \ Keys(before) :
          /\ k \in Range(package_names)
          /\ Len(Basename(f.root)) > 3
          /\ StartsWith(k, Basename(f.root))
          /\ Contains(SplitExtRoot(f.file), k) \/ Contains(f.file, k)
          /\ Lookup(recipe_paths', k) = Join(f.root, f.file)

\* C22: the directory rule resolves a package P by a file only if the
\* name of the file's directory is longer than 3 characters and a prefix
\* of P, and P occurs in the file's name, with or without the extension;
\* it never assigns a file to a package that is already a key of the
\* RecipeIndex, and assigns at most one package per file.
C22_DirectoryRule ==
    [][(pc = "walk" /\ fidx < Len(walk) /\ IsRecipeFile(walk[fidx + 1].file))
          => DirectoryRuleDid(BeforeDirectoryRule(walk[fidx + 1]),
                              walk[fidx + 1])]_vars

\* The directory rule has resolved geodatatypes by lib-geodatatypes.bb of
\* the directory geodata, and has left the recipe of geodata alone
C22_Witness ==
    /\ fidx = 2
    /\ walk[2].file = <<"l","i","b","-","g","e","o","d","a","t","a","t","y","p","e","s",".","b","b">>
    /\ Keys(recipe_paths) = {<<"g","e","o","d","a","t","a">>, <<"g","e","o","d","a","t","a","t","y","p","e","s">>}
    /\ Lookup(recipe_paths, <<"g","e","o","d","a","t","a","t","y","p","e","s">>) = <<"l","/","g","e","o","d","a","t","a","/","l","i","b","-","g","e","o","d","a","t","a","t","y","p","e","s",".","b","b">>
    /\ Lookup(recipe_paths, <<"g","e","o","d","a","t","a">>) = <<"l","/","g","e","o","d","a","t","a","/","c","o","m","m","o","n",".","i","n","c">>

----------------------------------------------------------------------------
(* Properties of extract_src_info *)

\* C4: in Step 1 each of URI, revision and branch is set at most once: a
\* line of the primary file never changes a field that an earlier line of
\* the file has set (the first successful match in file order is kept).
C4_FirstMatchKept ==
    [][(pc = "x_lines" /\ lidx' = lidx + 1) =>
          /\ src_uri.some => src_uri' = src_uri
          /\ src_rev.some => src_rev' = src_rev
          /\ src_branch.some => src_branch' = src_branch]_vars

\* The files opened after the primary file, in Steps 2 and 3
OpenedSiblings ==
    {FileNamed(xdir, opened[i]) : i \in 2..Len(opened)}

\* C10: the URI is only ever taken from the primary recipe file: after
\* Step 2 and after Step 3 the URI is the one that the scan of the primary
\* file left, so it is absent when the primary file yields none, even when
\* a sibling file that was read declares one.
C10_UriOnlyFromPrimary ==
    pc \in {"x_step3", "x_done"} =>
        src_uri = ScanPrimary(Triple(None, None, None), lines).uri

\* A call that returns no URI although a sibling file that it read
\* declares one
C10_Witness ==
    /\ pc = "x_done"
    /\ src_uri = None
    /\ \E f \in OpenedSiblings :
          f.name # recipe_filename /\ f.readable /\ "uri_s" \in Range(f.chunks)

\* The line that the step of the loop over the primary file's lines handles
LineHandled == lines[lidx + 1]

\* C21: each logical line of the primary file is handled by at most one
\* extractor, the URI one when the line contains SRC_URI and "git", else
\* the revision one when it contains SRCREV, else the branch one when it
\* contains SRCBRANCH: a SRC_URI line with "git" that embeds ${SRCBRANCH}
\* or ${SRCREV} changes neither the branch nor the revision.
C21_OneExtractorPerLine ==
    [][(pc = "x_lines" /\ lidx < Len(lines)) =>
          IF /\ Contains(LineHandled, <<"S","R","C","_","U","R","I">>)
             /\ Contains(LineHandled, <<"g","i","t">>)
          THEN src_rev' = src_rev /\ src_branch' = src_branch
          ELSE IF Contains(LineHandled, <<"S","R","C","R","E","V">>)
          THEN src_uri' = src_uri /\ src_branch' = src_branch
          ELSE IF Contains(LineHandled, <<"S","R","C","B","R","A","N","C","H">>)
          THEN src_uri' = src_uri /\ src_rev' = src_rev
          ELSE /\ src_uri' = src_uri
               /\ src_rev' = src_rev
               /\ src_branch' = src_branch]_vars

\* A SRC_URI line with "git" that embeds ${SRCBRANCH} and is followed, on
\* the same line, by a revision declaration has set the URI only
C21_Witness ==
    /\ pc = "x_lines"
    /\ lidx = 1
    /\ Contains(lines[1], <<"$","{","S","R","C","B","R","A","N","C","H","}">>)
    /\ Contains(lines[1], <<"S","R","C","R","E","V"," ","=">>)
    /\ src_uri.some
    /\ ~src_rev.some /\ ~src_branch.some

\* The chunks that declare the repository b of the owner a on github.com:
\* by git:// with and without parameters, by https:// and in the SSH form
GithubDeclarations == {"uri1", "uri_q", "uri_https", "uri_ssh"}

\* C15: every declaration of a github.com repository, in any transport
\* form and with or without a ";param" list, gives exactly the URI
\* git@github.com:owner/repo.git.
C15_GithubUriCanonical ==
    (/\ pc = "x_done"
     /\ Len(FileNamed(xdir, recipe_filename).chunks) = 1
     /\ FileNamed(xdir, recipe_filename).chunks[1] \in GithubDeclarations)
        => src_uri = Some(<<"g","i","t","@","g","i","t","h","u","b",".","c","o","m",":","a","/","b",".","g","i","t">>)

\* The files of the directory that Step 3 is said to examine: the recipe
\* files whose name starts with the base name
BaseNameFiles ==
    {xdir[i].name : i \in {j \in 1..Len(xdir) :
        /\ IsRecipeFile(xdir[j].name)
        /\ StartsWith(xdir[j].name, BaseName(recipe_filename))}}

\* C11: when the revision or the branch is still unresolved after Steps 1
\* and 2, with or without a version qualifier, Step 3 has examined every
\* .bb or .inc file of the directory whose name starts with the base name,
\* unless both got resolved on the way (here: all files readable, and the
\* call returned with one of the two unresolved).
C11_Step3ReadsEveryBaseNameFile ==
    (/\ pc = "x_done"
     /\ ~src_rev.some \/ ~src_branch.some
     /\ \A i \in 1..Len(xdir) : xdir[i].readable)
        => BaseNameFiles \subseteq Range(opened)

\* The machine-specific candidates that exist in the directory, in the
\* order of the list of line 238
ExistingCandidates ==
    LET Exists(n) == n \in Names(xdir) IN
    SelectSeq(possible_patterns(BaseName(recipe_filename), machine_type.v),
              Exists)

\* The triple after the files named, each scanned as a candidate
RECURSIVE TripleAfter(_, _)
TripleAfter(t, names) ==
    IF names = <<>> THEN t
    ELSE TripleAfter(
            ScanCandidate(t, LogicalLines(Content(FileNamed(xdir, Head(names))))),
            Tail(names))

\* Step 2 goes no further than the k-th existing candidate: it cannot be
\* read, or both are resolved once it is scanned
StopsAt(t, c, k) ==
    \/ ~FileNamed(xdir, c[k]).readable
    \/ BothFound(TripleAfter(t, SubSeq(c, 1, k)))

OrLen(i, n) == IF i = 0 THEN n ELSE i

\* The candidates Step 2 is to open, from the triple t of Step 1
Step2Files(t, c) ==
    SubSeq(c, 1, OrLen(FirstHit({k \in 1..Len(c) : StopsAt(t, c, k)}), Len(c)))

\* Step 1 is over: the call is past the primary file's lines
AfterPrimary ==
    \/ pc \in {"x_step3", "x_done"}
    \/ pc = "x_raised" /\ lines # <<>>

\* What Step 2 did, given the files fs it was to open
Step2Did(fs) ==
    /\ Len(opened) >= 1 + Len(fs)
    /\ SubSeq(opened, 1, 1 + Len(fs)) = <<recipe_filename>> \o fs
    /\ pc = "x_step3" => Len(opened) = 1 + Len(fs)
    /\ pc = "x_raised" => /\ Len(opened) = 1 + Len(fs)
                          /\ ~FileNamed(xdir, opened[Len(opened)]).readable

\* C12: Step 2 runs exactly when the revision or the branch is unresolved
\* after Step 1 and a version qualifier is available; it opens the
\* candidates that exist, in the order of the list, and none after the one
\* that leaves both resolved.
C12_Step2InListOrderUntilBoth ==
    AfterPrimary =>
        IF NeedsFallback(ScanPrimary(Triple(None, None, None), lines),
                         machine_type)
        THEN Step2Did(Step2Files(ScanPrimary(Triple(None, None, None), lines),
                                 ExistingCandidates))
        ELSE pc = "x_done" /\ opened = <<recipe_filename>>

\* Step 2 has stopped after the first of two existing candidates, which
\* left both resolved
C12_Witness ==
    /\ pc = "x_step3"
    /\ Len(opened) = 2
    /\ Len(ExistingCandidates) = 2
    /\ src_rev.some /\ src_branch.some

\* The listings of the same files in every order
Reorderings(dir) ==
    {[i \in 1..Len(dir) |-> dir[f[i]]] :
        f \in {g \in [1..Len(dir) -> 1..Len(dir)] :
                  \A i, j \in 1..Len(dir) : i # j => g[i] # g[j]}}

\* C16: the triple returned depends on the files' contents, the recipe's
\* name and the qualifier only: a call on the same files gives the same
\* triple, in whichever order the directory is enumerated in Step 3
\* (here: all files readable).
C16_TripleIndependentOfListingOrder ==
    (pc = "x_done" /\ \A i \in 1..Len(xdir) : xdir[i].readable) =>
        \A dir \in Reorderings(xdir) :
            ExtractSrcInfo(dir, recipe_filename, machine_type).t
                = Triple(src_uri, src_rev, src_branch)

\* The revision and the branch that the first matching line of ls declares
FirstRevOf(ls) ==
    LET hits == {i \in 1..Len(ls) :
                    Contains(ls[i], SRCREV) /\ MatchRev(ls[i]).some} IN
    IF hits = {} THEN None ELSE MatchRev(ls[MinOf(hits)])

FirstBranchOf(ls) ==
    LET hits == {i \in 1..Len(ls) :
                    Contains(ls[i], SRCBRANCH) /\ MatchBranch(ls[i]).some} IN
    IF hits = {} THEN None ELSE MatchBranch(ls[MinOf(hits)])

\* What each fallback file opened declares, in the order they were opened:
\* the candidates of Step 2, then the files of Step 3
FallbackRevs ==
    [k \in 1..(Len(opened) - 1) |->
        FirstRevOf(LogicalLines(Content(FileNamed(xdir, opened[k + 1]))))]

FallbackBranches ==
    [k \in 1..(Len(opened) - 1) |->
        FirstBranchOf(LogicalLines(Content(FileNamed(xdir, opened[k + 1]))))]

\* The field has the value of the primary file when that file resolves it;
\* when not and the field is filled, it has the first value of found
FromFirstSource(field, primary, found) ==
    IF primary.some THEN field = primary
    ELSE field.some =>
            /\ \E k \in 1..Len(found) : found[k].some
            /\ field = found[MinOf({k \in 1..Len(found) : found[k].some})]

\* C28: a revision or a branch that the primary file resolves is not
\* changed by Step 2 or Step 3, and a field that a fallback fills has the
\* value of the first fallback file, Step 2 candidates before Step 3
\* files, in which a pattern for it matches; the revision and the branch
\* are filled independently of each other.
C28_FirstSourceWins ==
    pc \in {"x_step3", "x_done"} =>
        /\ FromFirstSource(src_rev,
                           ScanPrimary(Triple(None, None, None), lines).rev,
                           FallbackRevs)
        /\ FromFirstSource(src_branch,
                           ScanPrimary(Triple(None, None, None), lines).branch,
                           FallbackBranches)

\* The revision comes from the first candidate of Step 2 and the branch
\* from the second one, which declares another revision as well
C28_Witness ==
    /\ pc = "x_step3"
    /\ Len(opened) = 3
    /\ src_rev = Some(<<"a","a","a","a","a","a">>)
    /\ src_branch = Some(<<"r","e","l">>)
    /\ FallbackRevs[2] = Some(<<"b","b","b","b","b","b">>)

----------------------------------------------------------------------------
(* Properties of main and clone_and_describe_repo *)

DriverPaths == {RecipePath(kind, k) : kind \in DriverKinds, k \in DriverPkgs}

DriverMachineTypes ==
    {MachineTypeOf(MachineOf(es, k)) : es \in DriverBuildlists, k \in DriverPkgs}

\* What extract_src_info returns for each recipe path and machine type
Extraction ==
    [path \in DriverPaths |->
        [mt \in DriverMachineTypes |-> ExtractFrom(path, mt)]]

\* The call returned a URI, a revision and a branch
AllThree(p) == ~p.raised /\ p.t.uri.some /\ p.t.rev.some /\ p.t.branch.some

\* Extraction returns a URI, a revision and a branch for the i-th recipe
Resolved(i) ==
    AllThree(Extraction[recipe_paths[i].val]
                       [MachineTypeOf(MachineOf(entries, recipe_paths[i].key))])

\* C5: a package is a key of the ResultSet if and only if it is in the
\* RecipeIndex and extraction resolved its URI, revision and branch; a
\* package with a field unresolved is logged as incomplete and is absent
\* from the ResultSet, and the loop goes on; the file written after the
\* loop holds the ResultSet of all the recipes.
C5_ResultSetIffResolved ==
    /\ \A i \in 1..ridx :
          /\ recipe_paths[i].key \in Keys(package_info) <=> Resolved(i)
          /\ recipe_paths[i].key \in Range(incomplete) <=> ~Resolved(i)
    /\ Keys(package_info) \cup Range(incomplete)
          \subseteq {recipe_paths[i].key : i \in 1..ridx}
    /\ pc = "main_done" =>
          /\ ridx = Len(recipe_paths)
          /\ output.written
          /\ output.data = package_info

\* A run that ends with a recipe logged as incomplete and a later recipe
\* in the ResultSet
C5_Witness ==
    /\ pc = "main_done"
    /\ \E i, j \in 1..Len(recipe_paths) :
          /\ i < j
          /\ recipe_paths[i].key \in Range(incomplete)
          /\ recipe_paths[j].key \in Keys(output.data)

\* C6: no failure raised while a package is processed (an unreadable
\* recipe file or sibling file, a failing git invocation, a missing git
\* executable) leaves the driver loop.
C6_NoFailureLeavesTheLoop == pc # "main_raised"

\* C7: when the clone, the checkout or the describe invocation fails, the
\* failure is caught and the tag returned is "rev-" followed by the first
\* 8 characters of the revision, whichever invocation failed.
C7_GitFailureGivesFallbackTag ==
    (git_failed # "none" /\ pc \in {"r_exit", "main_record", "main_raised"}) =>
        (~raising /\ tag = FallbackTag(src_rev))

\* C8: the working directory of a package no longer exists when the
\* resolver has returned or raised, on every path, and at most one working
\* directory exists at any point of a run.
C8_WorkingDirectoryRemoved ==
    /\ tmpdirs <= 1
    /\ pc \in {"main_loop", "r_enter", "main_record", "main_raised", "main_done"}
          => tmpdirs = 0

\* The resolver has returned for one recipe and has raised for a later
\* one, after a failed git invocation
C8_Witness ==
    /\ pc = "main_raised"
    /\ git_failed # "none"
    /\ package_info # <<>>
    /\ tmpdirs = 0

\* C17: a package whose repository was cloned, checked out and described
\* with success gets the output of git describe without its surrounding
\* whitespace as its tag, and no record of the ResultSet, stored or
\* written, has an absent tag.
C17_TagNeverAbsent ==
    /\ \A i \in 1..Len(package_info) : package_info[i].val.tag.some
    /\ \A i \in 1..Len(output.data) : output.data[i].val.tag.some
    /\ (pc = "main_record" /\ git_failed = "none") =>
          /\ tag.some
          /\ \E stdout \in DescribeOutputs : stdout = Append(tag.v, "\n")

\* The ResultSet written holds a tag printed by git describe and the tag
\* of a failed invocation
C17_Witness ==
    /\ pc = "main_done"
    /\ \E i \in 1..Len(output.data) :
          output.data[i].val.tag = Some(<<"v","1",".","0">>)
    /\ \E i \in 1..Len(output.data) :
          output.data[i].val.tag
              = Some(<<"r","e","v","-","0","1","2","3","4","5","6","7">>)

\* C18: the ResultSet, stored or written, holds at most one record per
\* package name, also when the manifest lists the package several times.
C18_OneRecordPerPackage ==
    /\ \A i, j \in 1..Len(package_info) :
          package_info[i].key = package_info[j].key => i = j
    /\ \A i, j \in 1..Len(output.data) :
          output.data[i].key = output.data[j].key => i = j

\* The manifest lists a package twice and the ResultSet written holds its
\* record
C18_Witness ==
    /\ pc = "main_done"
    /\ \E i, j \in 1..Len(package_names) :
          /\ i # j
          /\ package_names[i] = package_names[j]
          /\ package_names[i] \in Keys(output.data)

\* C19: the ResultSet is written once, after the last located package was
\* processed, with the records stored by then; nothing is written while
\* packages are processed, and a run that an exception aborts writes
\* nothing.
C19_WrittenOnceAfterTheLoop ==
    /\ [](output.written <=> pc = "main_done")
    /\ [](output.written =>
            /\ ridx = Len(recipe_paths)
            /\ output.data = package_info)
    /\ [][output.written => output' = output]_vars

\* The file is written after two packages were processed and one record
\* was stored
C19_Witness ==
    /\ output.written
    /\ ridx = 2
    /\ Len(output.data) = 1

\* C24: within one call of the resolver the steps come in the order clone,
\* checkout, describe: a step is attempted only when the steps before it
\* have succeeded, and a failed step is followed by no other step of the
\* call.
C24_GitStepsInOrder ==
    /\ [](pc \in {"r_clone", "r_checkout", "r_describe", "r_tag"}
            => git_failed = "none")
    /\ [][/\ pc = "r_clone" => pc' \in {"r_checkout", "r_exit"}
          /\ pc = "r_checkout" => pc' \in {"r_describe", "r_exit"}
          /\ pc = "r_describe" => pc' \in {"r_tag", "r_exit"}
          /\ pc' = "r_clone" => pc = "r_enter"
          /\ pc = "r_exit" => pc' \in {"main_record", "main_raised"}]_vars

\* The checkout has failed after the clone succeeded, and the call ends
C24_Witness ==
    /\ pc = "r_exit"
    /\ git_failed = "checkout"
    /\ ~raising

\* C25: when every git invocation returns, with success or with failure,
\* and no file operation raises, every entry of the RecipeIndex is
\* processed and the ResultSet is eventually written (here: a run either
\* is aborted by a file that cannot be read, or reaches the write).
C25_RunReachesTheWrite ==
    <>(\/ pc = "main_done" /\ ridx = Len(recipe_paths) /\ output.written
       \/ pc = "main_raised" /\ git_failed = "none")

\* C26: at every point of a run, every key of the RecipeIndex is a package
\* of the PackageSet, every path of the RecipeIndex is a file that the walk
\* has visited and that ends in ".bb" or ".inc", and every key of the
\* ResultSet, stored or written, is a key of the RecipeIndex.
C26_IndexAndResultSetKeys ==
    /\ Keys(recipe_paths) \subseteq Range(package_names)
    /\ \A i \in 1..Len(recipe_paths) :
          /\ \E j \in 1..fidx :
                recipe_paths[i].val = Join(walk[j].root, walk[j].file)
          /\ IsRecipeFile(recipe_paths[i].val)
    /\ Keys(package_info) \subseteq Keys(recipe_paths)
    /\ Keys(output.data) \subseteq Keys(recipe_paths)

\* Two recipes were located by the walk, and the record of one of them
\* was written
C26_Witness ==
    /\ pc = "main_done"
    /\ fidx >= 2
    /\ Len(recipe_paths) = 2
    /\ Len(output.data) = 1

\* The places of a run where the resolver works on a package
InResolver ==
    pc \in {"r_enter", "r_clone", "r_checkout", "r_describe", "r_tag", "r_exit"}

\* One package at a time, in the order of the RecipeIndex: the index is not
\* changed after the walk, the loop goes from one key to the next one
\* only, from the test of line 446 or after the record was stored, the
\* extraction of a package starts at the head of the loop only, and the
\* resolver works on packages with all three fields only
OneAtATimeInOrder ==
    /\ [](InResolver =>
             /\ ridx < Len(recipe_paths)
             /\ Complete(Triple(src_uri, src_rev, src_branch)))
    /\ [][/\ pc # "walk" => recipe_paths' = recipe_paths
          /\ ridx' \in {ridx, ridx + 1}
          /\ ridx' = ridx + 1 =>
                pc \in {"main_loop", "main_record"} /\ pc' = "main_loop"
          /\ opened' # opened => pc = "main_loop"
          /\ pc' = "r_enter" => pc = "main_loop" /\ ridx' = ridx]_vars

\* C29: the driver processes each key of the RecipeIndex exactly once, in
\* the order in which the keys were recorded, one after the other: the
\* extraction of the next package does not start before the resolver call
\* of the previous one has returned, and the resolver is called only for
\* packages with all three fields resolved.
C29_EachKeyOnceInOrder ==
    /\ OneAtATimeInOrder
    /\ <>(ridx = Len(recipe_paths))

----------------------------------------------------------------------------
(* Properties of the machine type *)

AllDigits(s, a, b) == a <= b /\ \A i \in a..b : s[i] \in Digits

\* The places <<i, j, k>> of s where a number from i, the separator at j and
\* a number up to k stand, the second number not followed by a digit
NumberPairs(s, sep) ==
    UNION {{<<i, j, k>> : i \in {a \in 1..(j - 1) : AllDigits(s, a, j - 1)},
                          k \in {b \in (j + 1)..Len(s) :
                                    /\ AllDigits(s, j + 1, b)
                                    /\ b = Len(s) \/ s[b + 1] \notin Digits}} :
           j \in {c \in 1..Len(s) : s[c] = sep}}

\* Those that follow the text "rcrip"
RcripPairs(s) ==
    {p \in NumberPairs(s, "-") :
        p[1] > 5 /\ SubSeq(s, p[1] - 5, p[1] - 1) = <<"r","c","r","i","p">>}

\* X.Y for the leftmost place of P, absent when there is none
LeftmostJoined(s, P) ==
    IF P = {} THEN None
    ELSE LET p == CHOOSE q \in P : \A r \in P : q[1] <= r[1] IN
         Some(SubSeq(s, p[1], p[2] - 1) \o <<".">> \o SubSeq(s, p[2] + 1, p[3]))

\* The qualifier of a group: the first of X.Y, rcripX-Y, any X-Y and any
\* X.Y that occurs in it
ExpectedQualifier(g) ==
    OrElse(LeftmostJoined(g, NumberPairs(g, ".")),
           OrElse(LeftmostJoined(g, RcripPairs(g)),
                  OrElse(LeftmostJoined(g, NumberPairs(g, "-")),
                         LeftmostJoined(g, NumberPairs(g, ".")))))

\* The entries of the buildlist for the recipe being processed
EntriesOfRecipe ==
    {i \in 1..Len(entries) : entries[i][2] = recipe_paths[ridx + 1].key}

\* C23: the group used for a package is the group of the first entry of
\* the manifest for that package, and the qualifier is what the first of
\* the patterns X.Y, rcripX-Y, any X-Y, any X.Y that matches the group
\* gives, two numbers being joined by a dot; it is absent when none matches.
C23_QualifierOfFirstEntry ==
    pc = "q_done" =>
        /\ machine = IF EntriesOfRecipe = {} THEN None
                     ELSE Some(entries[MinOf(EntriesOfRecipe)][1])
        /\ machine_type = IF machine.some THEN ExpectedQualifier(machine.v)
                          ELSE None

\* The package has two entries, and the group rcrip2-0 of the first one
\* has given the qualifier 2.0
C23_Witness ==
    /\ pc = "q_done"
    /\ Cardinality(EntriesOfRecipe) = 2
    /\ machine = Some(<<"r","c","r","i","p","2","-","0">>)
    /\ machine_type = Some(<<"2",".","0">>)

\* C30: a qualifier that the driver derives is made of digits, a dot and
\* digits, and it is never the fourth pattern that gives it: a group that
\* the fourth pattern matches is matched by one before it.
C30_QualifierShape ==
    (pc = "q_done" /\ machine_type.some) =>
        /\ \E j \in 2..(Len(machine_type.v) - 1) :
              /\ machine_type.v[j] = "."
              /\ AllDigits(machine_type.v, 1, j - 1)
              /\ AllDigits(machine_type.v, j + 1, Len(machine_type.v))
        /\ \/ SearchDotted(machine.v).some
           \/ SearchRcrip(machine.v).some
           \/ SearchAnyPair(machine.v, "-").some

\* A group with a dotted pair and no dashed pair has given a qualifier
C30_Witness ==
    /\ pc = "q_done"
    /\ machine = Some(<<"v","3",".","1",".">>)
    /\ machine_type = Some(<<"3",".","1">>)

====
